---------------------------- MODULE Spec2Model ----------------------------
(***************************************************************************)
(* A model of the MedScheduler booking core: the session store             *)
(* (services/session_manager.py), the message log                          *)
(* (services/chat_history.py), the booking state machine and the turn      *)
(* orchestration (services/ai_assistant.py) and the HTTP / WebSocket       *)
(* handlers that drive them (api/routes.py).                               *)
(*                                                                         *)
(* Texts are sequences of one-character strings, so that lower(), strip(), *)
(* split(), isalpha(), substring tests and the phone regular expression    *)
(* are computed character by character as Python computes them.  The clock *)
(* counts hours.  Every handler runs to completion as one action (turns    *)
(* are sequential in this specification).                                  *)
(***************************************************************************)
EXTENDS Integers, Sequences, FiniteSets, TLC

(***************************************************************************)
(* Bounds of the exploration.                                              *)
(***************************************************************************)
\* Total number of messages held in all logs together.
MaxMsgs == 2
\* Number of timeout periods the clock may advance.
MaxClock == 2
\* Number of direct SessionManager update calls (update_booking_step,
\* update_patient_info, update_session by a caller).
MaxAdminOps == 1
\* Number of process_message calls a caller makes when its calls are followed
\* step by step.
MaxTurns == 7
\* Largest limit passed to get_recent_messages.
MaxLimit == 3
\* Number of process_message calls started in all when the calls of several
\* callers may overlap.
MaxCalls == 3
\* Total number of messages held in all logs together when a POST /chat turn
\* is followed step by step.
MaxTurnMsgs == 4
\* Number of save_message calls started in all when the calls of several
\* callers may overlap.
MaxAppends == 3

(***************************************************************************)
(* Program constants.                                                      *)
(***************************************************************************)
\* SessionManager.__init__(session_timeout_hours=24)
SessionTimeoutHours == 24
\* _update_session_state: len(potential_name.split()) <= 3
MaxNameTokens == 3
\* _update_session_state: len(re.sub(r'[^\d]', '', match)) >= 10
MinPhoneDigits == 10
\* limit passed to get_recent_messages by process_message
RecentLimit == 5

(***************************************************************************)
(* Characters and Python string operations.                                *)
(***************************************************************************)
UpperLetters ==
  <<"A","B","C","D","E","F","G","H","I","J","K","L","M",
    "N","O","P","Q","R","S","T","U","V","W","X","Y","Z">>
LowerLetters ==
  <<"a","b","c","d","e","f","g","h","i","j","k","l","m",
    "n","o","p","q","r","s","t","u","v","w","x","y","z">>
Range(f) == {f[i] : i \in DOMAIN f}
Digits == {"0","1","2","3","4","5","6","7","8","9"}
\* The only whitespace character of the modelled texts is the blank.
Whitespace == {" "}
Alpha == Range(UpperLetters) \cup Range(LowerLetters)

\* str.lower() on one character
LowerChar(c) ==
  IF c \in Range(UpperLetters)
  THEN LowerLetters[CHOOSE i \in DOMAIN UpperLetters : UpperLetters[i] = c]
  ELSE c
\* str.lower()
Lower(s) == [i \in 1..Len(s) |-> LowerChar(s[i])]
\* sub in s
Contains(s, sub) ==
  \E i \in 0..(Len(s) - Len(sub)) : SubSeq(s, i + 1, i + Len(sub)) = sub
\* any(w in s for w in words)
ContainsAny(s, words) == \E w \in words : Contains(s, w)
\* str.strip()
Strip(s) ==
  LET nonws == {i \in 1..Len(s) : s[i] \notin Whitespace}
  IN  IF nonws = {} THEN <<>>
      ELSE LET lo == CHOOSE i \in nonws : \A j \in nonws : i <= j
               hi == CHOOSE i \in nonws : \A j \in nonws : j <= i
           IN  SubSeq(s, lo, hi)
\* len(s.split()): the number of whitespace-separated tokens
SplitCount(s) ==
  Cardinality({i \in 1..Len(s) :
                 /\ s[i] \notin Whitespace
                 /\ (i = 1 \/ s[i - 1] \in Whitespace)})
\* s.replace(' ', '').isalpha(): non-empty once blanks are removed, and
\* every remaining character alphabetic
IsAlphaNoSpaces(s) ==
  /\ \E i \in 1..Len(s) : s[i] # " "
  /\ \A i \in 1..Len(s) : s[i] # " " => s[i] \in Alpha
\* the character class [\d\-\(\)\+\s]
PhoneClass == Digits \cup {"-", "(", ")", "+"} \cup Whitespace
\* re.search(r'[\d\-\(\)\+\s]+', s): the leftmost match, extended greedily;
\* <<>> stands for "no match" (a match is never empty)
PhoneMatch(s) ==
  LET hits == {i \in 1..Len(s) : s[i] \in PhoneClass}
  IN  IF hits = {} THEN <<>>
      ELSE LET lo == CHOOSE i \in hits : \A j \in hits : i <= j
               ends == {j \in lo..Len(s) : \A k \in lo..j : s[k] \in PhoneClass}
               hi == CHOOSE j \in ends : \A k \in ends : k <= j
           IN  SubSeq(s, lo, hi)
\* len(re.sub(r'[^\d]', '', m))
DigitCount(m) == Cardinality({i \in 1..Len(m) : m[i] \in Digits})


(***************************************************************************)
(* Enumerations (models/base.py) and values.                               *)
(***************************************************************************)
\* Optional[...] = None
None == <<"None">>
\* BookingStep, in declaration order
BookingStep ==
  <<"greeting", "name_collection", "phone_collection", "symptoms_collection",
    "doctor_preference", "slot_selection", "confirmation", "completed">>
Steps == Range(BookingStep)
\* position of a step in the fixed order
StepIndex(step) == CHOOSE i \in DOMAIN BookingStep : BookingStep[i] = step
\* SessionStatus
SessionStatus == {"active", "completed", "expired", "cancelled"}
\* status_filter = None
NoFilter == "none"
\* MessageType
MessageType == {"user", "assistant", "system"}

\* `not value` for an Optional[str]: None and the empty string are falsy
Falsy(v) == v = None \/ v = <<>>

(***************************************************************************)
(* User texts sent in turns.                                               *)
(***************************************************************************)
\* greets, and is a name (alphabetic, one token)
TextHi == <<"H","i">>
\* a phone number of ten digits; it also contains the slot word "12"
TextPhone == <<"5","5","5","1","2","3","4","5","6","7">>
\* names a doctor and confirms; not a name (punctuation), not a phone (the
\* leftmost run of phone characters is a single blank)
TextDoctorYes == <<"D","r","."," ","J","o","h","n","s","o","n",","," ","y","e","s">>
Texts == {TextHi, TextPhone, TextDoctorYes}
\* The value a caller passes to update_patient_info.
PresetValue == <<"p","r","e","s","e","t">>
\* The e-mail address and metadata a caller passes to create_session.
SomeEmail == <<"a@b.c">>
NoMetadata == <<>>
SomeMetadata == <<"source=web">>

\* Replies. The generated text is opaque; the two fixed texts are the
\* program's.
GeneratedReply == <<"(generated reply)">>
FallbackReply ==
  <<"I apologize, but I'm having trouble processing your request right now. Please try again.">>
NotFoundReply ==
  <<"I'm sorry, I couldn't find your session. Please start a new booking session.">>

(***************************************************************************)
(* The booking state machine: AIAssistantService._update_session_state,    *)
(* one operator per branch of its if / elif chain.  Each takes the loaded  *)
(* session record and the raw user text and returns the record as it is    *)
(* before update_session stamps and writes it.                             *)
(***************************************************************************)
GreetingWords == {<<"h","e","l","l","o">>, <<"h","i">>, <<"h","e","y">>, <<"g","o","o","d">>}
SlotWords == {<<"9">>, <<"1","0">>, <<"1","1">>, <<"1","2">>, <<"1","3">>, <<"1","4">>, <<"1","5">>, <<"1","6">>}
ConfirmWords == {<<"y","e","s">>, <<"c","o","n","f","i","r","m">>, <<"b","o","o","k">>, <<"s","c","h","e","d","u","l","e">>}
DoctorSmith == <<"s","m","i","t","h">>
DoctorJohnson == <<"j","o","h","n","s","o","n">>
DoctorBrown == <<"b","r","o","w","n">>

\* the advance condition of each step, as the code tests it
GreetingMatch(text) == ContainsAny(Lower(text), GreetingWords)
\* NameMatch without the test that the text is alphabetic
NameMatchAnyCharacters(info, text) ==
  /\ Falsy(info.name)
  /\ Len(Strip(text)) > 0
  /\ SplitCount(Strip(text)) <= MaxNameTokens
\* the name test without the check that name is still unset
NameMatchIgnoresStoredName(info, text) ==
  /\ Len(Strip(text)) > 0
  /\ SplitCount(Strip(text)) <= MaxNameTokens
  /\ IsAlphaNoSpaces(Strip(text))
NameMatch(info, text) ==
  /\ Falsy(info.name)
  /\ Len(Strip(text)) > 0
  /\ SplitCount(Strip(text)) <= MaxNameTokens
  /\ IsAlphaNoSpaces(Strip(text))
PhoneAccept(text) ==
  /\ PhoneMatch(text) # <<>>
  /\ DigitCount(PhoneMatch(text)) >= MinPhoneDigits
SymptomsMatch(info) == Falsy(info.symptoms)
DoctorMatch(text) ==
  \/ Contains(Lower(text), DoctorSmith)
  \/ Contains(Lower(text), DoctorJohnson)
  \/ Contains(Lower(text), DoctorBrown)
SlotMatch(text) == ContainsAny(Lower(text), SlotWords)
ConfirmMatch(text) == ContainsAny(Lower(text), ConfirmWords)

\* GreetingStep passing over name_collection
GreetingStepSkipsName(session, text) ==
  IF GreetingMatch(text)
  THEN [session EXCEPT !.current_step = "phone_collection"]
  ELSE session

GreetingStep(session, text) ==
  IF GreetingMatch(text)
  THEN [session EXCEPT !.current_step = "name_collection"]
  ELSE session


NameStep(session, text) ==
  IF NameMatch(session.patient_info, text)
  THEN [session EXCEPT !.patient_info.name = Strip(text),
                       !.current_step = "phone_collection"]
  ELSE session

\* PhoneStep with the assignment made before the digit count is tested
PhoneStepAssignsFirst(session, text) ==
  IF PhoneMatch(text) = <<>> THEN session
  ELSE LET kept == [session EXCEPT !.patient_info.phone = Strip(PhoneMatch(text))]
       IN  IF DigitCount(PhoneMatch(text)) >= MinPhoneDigits
           THEN [kept EXCEPT !.current_step = "symptoms_collection"]
           ELSE kept

PhoneStep(session, text) ==
  IF PhoneAccept(text)
  THEN [session EXCEPT !.patient_info.phone = Strip(PhoneMatch(text)),
                       !.current_step = "symptoms_collection"]
  ELSE session

SymptomsStep(session, text) ==
  IF SymptomsMatch(session.patient_info)
  THEN [session EXCEPT !.patient_info.symptoms = text,
                       !.current_step = "doctor_preference"]
  ELSE session

\* DoctorStep testing the names in the order brown, johnson, smith
DoctorStepReversed(session, text) ==
  IF Contains(Lower(text), DoctorBrown)
  THEN [session EXCEPT !.patient_info.preferred_doctor = <<"dr_brown">>,
                       !.current_step = "slot_selection"]
  ELSE IF Contains(Lower(text), DoctorJohnson)
  THEN [session EXCEPT !.patient_info.preferred_doctor = <<"dr_johnson">>,
                       !.current_step = "slot_selection"]
  ELSE IF Contains(Lower(text), DoctorSmith)
  THEN [session EXCEPT !.patient_info.preferred_doctor = <<"dr_smith">>,
                       !.current_step = "slot_selection"]
  ELSE session

DoctorStep(session, text) ==
  IF Contains(Lower(text), DoctorSmith)
  THEN [session EXCEPT !.patient_info.preferred_doctor = <<"dr_smith">>,
                       !.current_step = "slot_selection"]
  ELSE IF Contains(Lower(text), DoctorJohnson)
  THEN [session EXCEPT !.patient_info.preferred_doctor = <<"dr_johnson">>,
                       !.current_step = "slot_selection"]
  ELSE IF Contains(Lower(text), DoctorBrown)
  THEN [session EXCEPT !.patient_info.preferred_doctor = <<"dr_brown">>,
                       !.current_step = "slot_selection"]
  ELSE session

SlotStep(session, text) ==
  IF SlotMatch(text)
  THEN [session EXCEPT !.current_step = "confirmation"]
  ELSE session

\* ConfirmationStep with a refusal sending the conversation back to the slots
ConfirmationStepGoesBack(session, text) ==
  IF ConfirmMatch(text)
  THEN [session EXCEPT !.current_step = "completed"]
  ELSE [session EXCEPT !.current_step = "slot_selection"]

\* the confirmation closing the session: status COMPLETED with the last step
ConfirmationStepClosesSession(session, text) ==
  IF ConfirmMatch(text)
  THEN [session EXCEPT !.current_step = "completed", !.status = "completed"]
  ELSE session

ConfirmationStep(session, text) ==
  IF ConfirmMatch(text)
  THEN [session EXCEPT !.current_step = "completed"]
  ELSE session

\* the chain with a turn at "completed" starting the conversation over
AdvanceStateCompletedRestarts(session, text) ==
  CASE session.current_step = "greeting" -> GreetingStep(session, text)
    [] session.current_step = "name_collection" -> NameStep(session, text)
    [] session.current_step = "phone_collection" -> PhoneStep(session, text)
    [] session.current_step = "symptoms_collection" -> SymptomsStep(session, text)
    [] session.current_step = "doctor_preference" -> DoctorStep(session, text)
    [] session.current_step = "slot_selection" -> SlotStep(session, text)
    [] session.current_step = "confirmation" -> ConfirmationStep(session, text)
    [] OTHER -> [session EXCEPT !.current_step = "greeting"]

\* the chain written with `if` in place of `elif`: every branch whose step
\* is current when it is reached runs
AdvanceStateFallThrough(session, text) ==
  LET s1 == IF session.current_step = "greeting" THEN GreetingStep(session, text) ELSE session
      s2 == IF s1.current_step = "name_collection" THEN NameStep(s1, text) ELSE s1
      s3 == IF s2.current_step = "phone_collection" THEN PhoneStep(s2, text) ELSE s2
      s4 == IF s3.current_step = "symptoms_collection" THEN SymptomsStep(s3, text) ELSE s3
      s5 == IF s4.current_step = "doctor_preference" THEN DoctorStep(s4, text) ELSE s4
      s6 == IF s5.current_step = "slot_selection" THEN SlotStep(s5, text) ELSE s5
  IN  IF s6.current_step = "confirmation" THEN ConfirmationStep(s6, text) ELSE s6

\* the if / elif chain on session.current_step (exactly one branch runs;
\* "completed" has no branch)
AdvanceState(session, text) ==
  CASE session.current_step = "greeting" -> GreetingStep(session, text)
    [] session.current_step = "name_collection" -> NameStep(session, text)
    [] session.current_step = "phone_collection" -> PhoneStep(session, text)
    [] session.current_step = "symptoms_collection" -> SymptomsStep(session, text)
    [] session.current_step = "doctor_preference" -> DoctorStep(session, text)
    [] session.current_step = "slot_selection" -> SlotStep(session, text)
    [] session.current_step = "confirmation" -> ConfirmationStep(session, text)
    [] OTHER -> session


(***************************************************************************)
(* State.                                                                  *)
(***************************************************************************)
VARIABLES
  store,     \* data/sessions: session id -> the record in <id>.json, or NoSession
  logs,      \* data/chat_history: session id -> the messages in <id>.json (<<>>: no file)
  wsOpen,    \* session ids with a WebSocket handler inside its receive loop
  now,       \* datetime.now(), in hours
  nextId,    \* the next fresh session id
  adminOps,  \* number of direct update calls made so far
  calls,     \* caller -> its process_message call in flight, and how many it made
  writable,  \* whether opening a file of data/sessions for writing succeeds
  faults,    \* the files that cannot be read or removed: pairs <<kind, id>>
  slots,     \* the slot table: of the service (memory) and in available_slots.json (file)
  last       \* the last operation: its inputs and its outcome

vars == <<store, logs, wsOpen, now, nextId, adminOps, calls, writable, faults, slots, last>>

\* Session ids (uuid4 values), handed out by create_session in order. The
\* specifications that follow one session create only the ids in Creatable,
\* so that the other is an id no session ever has.
Ids == {1, 2}
Creatable == {1}
\* no file <id>.json in data/sessions
NoSession == [absent |-> TRUE]
\* The faults of single files: the record of a session cannot be parsed
\* ("read": json.load or SessionData(**data) raises), the record of a session
\* cannot be removed ("remove": os.remove raises), the log of a session
\* cannot be loaded ("log_read": json.load or ChatMessage(**msg) raises).
FaultKinds == {"read", "remove", "log_read", "slots_write"}
Unreadable(id) == <<"read", id>> \in faults
Undeletable(id) == <<"remove", id>> \in faults
LogUnreadable(id) == <<"log_read", id>> \in faults
\* data/available_slots.json cannot be opened for writing
SlotsUnwritable == <<"slots_write", 0>> \in faults
\* the slots of _load_available_slots when there is no file, in list order:
\* <<doctor_key, date, time>>, every one available
DefaultSlotList ==
  << <<"dr_smith", "2024-01-15", "09:00">>,
     <<"dr_smith", "2024-01-15", "10:00">>,
     <<"dr_smith", "2024-01-16", "14:00">>,
     <<"dr_johnson", "2024-01-15", "11:00">>,
     <<"dr_johnson", "2024-01-16", "15:00">>,
     <<"dr_brown", "2024-01-15", "13:00">>,
     <<"dr_brown", "2024-01-17", "10:00">> >>
SlotKeys == Range(DefaultSlotList)
DefaultSlots == [key \in SlotKeys |-> TRUE]
\* the doctor keys of the table, and one that is not in it
DoctorKeys == {"dr_smith", "dr_johnson", "dr_brown"}
UnknownDoctor == "dr_jones"
\* the (doctor_key, date, time) passed to reserve_slot: slots of the table,
\* a time the doctor does not offer, and a doctor the table does not hold
SlotRequests ==
  { <<"dr_smith", "2024-01-15", "09:00">>,
    <<"dr_smith", "2024-01-16", "14:00">>,
    <<"dr_johnson", "2024-01-15", "11:00">>,
    <<"dr_smith", "2024-01-15", "11:00">>,
    <<UnknownDoctor, "2024-01-15", "09:00">> }
\* the threads or processes that call process_message on the shared storage
Callers == {1, 2}
\* a caller with no call in flight, having completed `made` calls
IdleCall(made) ==
  [pc |-> "idle", id |-> 0, text |-> <<>>, session |-> NoSession, made |-> made,
   messages |-> <<>>, reply |-> <<>>]

\* PatientInfo() with every field at its default
EmptyPatientInfo ==
  [name |-> None, phone |-> None, email |-> None, symptoms |-> None,
   preferred_doctor |-> None, preferred_date |-> None,
   preferred_time |-> None, additional_notes |-> None]
\* the fields update_patient_info is called with here
InfoFields == {"name", "phone", "symptoms", "preferred_doctor"}

\* NewSession with expires_at set to the creation time
NewSessionExpiresAtOnce(id, t, email, metadata) ==
  [session_id |-> id,
   created_at |-> t,
   updated_at |-> t,
   status |-> "active",
   current_step |-> "greeting",
   patient_info |-> IF ~Falsy(email)
                    THEN [EmptyPatientInfo EXCEPT !.email = email]
                    ELSE EmptyPatientInfo,
   metadata |-> metadata,
   expires_at |-> t]

\* SessionData(expires_at=..., metadata=...) with the model's defaults, and
\* the e-mail address when `if patient_email:` holds
NewSession(id, t, email, metadata) ==
  [session_id |-> id,
   created_at |-> t,
   updated_at |-> t,
   status |-> "active",
   current_step |-> "greeting",
   patient_info |-> IF ~Falsy(email)
                    THEN [EmptyPatientInfo EXCEPT !.email = email]
                    ELSE EmptyPatientInfo,
   metadata |-> metadata,
   expires_at |-> t + SessionTimeoutHours]

(***************************************************************************)
(* SessionManager.  Each operator takes the store (and the clock) and      *)
(* returns what the method returns together with the store it leaves.      *)
(***************************************************************************)
\* _save_session: whole-record overwrite of <session_id>.json; when the file
\* cannot be opened for writing the exception is caught and the file is left
\* as it was
SaveSession(st, session) ==
  IF writable THEN [st EXCEPT ![session.session_id] = session] ELSE st
\* what _save_session, and update_session after it, returns
SaveSessionOk == writable
\* what update_booking_step, update_patient_info and update_session report
\* for the record they were given
UpdateCode(session) ==
  IF session = NoSession THEN "not_found"
  ELSE IF SaveSessionOk THEN "ok" ELSE "failed"

\* get_session flipping only a session whose stored status is ACTIVE
GetSessionFlipsActiveOnly(st, id, t) ==
  IF id \notin Ids \/ st[id] = NoSession
  THEN [ret |-> NoSession, store |-> st]
  ELSE IF t > st[id].expires_at /\ st[id].status = "active"
  THEN LET session == [st[id] EXCEPT !.status = "expired"]
       IN  [ret |-> session, store |-> SaveSession(st, session)]
  ELSE [ret |-> st[id], store |-> st]

\* get_session expiring a session a timeout after its last update
GetSessionIdleTimeout(st, id, t) ==
  IF id \notin Ids \/ st[id] = NoSession \/ Unreadable(id)
  THEN [ret |-> NoSession, store |-> st]
  ELSE IF t > st[id].updated_at + SessionTimeoutHours
  THEN LET session == [st[id] EXCEPT !.status = "expired"]
       IN  [ret |-> session, store |-> SaveSession(st, session)]
  ELSE [ret |-> st[id], store |-> st]

\* get_session: load (None when there is no file, and when loading raises),
\* flip to EXPIRED when past expires_at, persist the flip
GetSession(st, id, t) ==
  IF id \notin Ids \/ st[id] = NoSession \/ Unreadable(id)
  THEN [ret |-> NoSession, store |-> st]
  ELSE IF t > st[id].expires_at
  THEN LET session == [st[id] EXCEPT !.status = "expired"]
       IN  [ret |-> session, store |-> SaveSession(st, session)]
  ELSE [ret |-> st[id], store |-> st]

\* update_session stamping expires_at as well (a sliding expiry)
UpdateSessionExtendsExpiry(st, session, t) ==
  SaveSession(st, [session EXCEPT !.updated_at = t,
                                  !.expires_at = t + SessionTimeoutHours])

\* update_session: stamp updated_at, then _save_session
UpdateSession(st, session, t) ==
  SaveSession(st, [session EXCEPT !.updated_at = t])

\* ChatHistoryService.get_session_messages: the list in file order; the empty
\* list when there is no file, and when loading raises
GetSessionMessages(lg, id) == IF LogUnreadable(id) THEN <<>> ELSE lg[id]
\* the Python slice messages[start:] for any integer start: a negative start
\* counts from the end and is clamped at the beginning, a start past the end
\* gives the empty list
SliceFrom(messages, start) ==
  LET n == Len(messages)
      from == IF start < 0
              THEN (IF n + start < 0 THEN 0 ELSE n + start)
              ELSE (IF start > n THEN n ELSE start)
  IN  SubSeq(messages, from + 1, n)
\* ChatHistoryService.get_recent_messages: messages[-limit:] if messages else []
GetRecentMessages(lg, id, limit) ==
  LET messages == GetSessionMessages(lg, id)
  IN  IF messages # <<>> THEN SliceFrom(messages, 0 - limit) ELSE <<>>
\* save_message putting the new message first
SaveMessageNewestFirst(lg, id, type, content) ==
  [lg EXCEPT ![id] =
     <<[message_type |-> type, content |-> content]>> \o GetSessionMessages(lg, id)]
\* ChatHistoryService.save_message (through save_chat_message): load all,
\* append, rewrite the file
SaveMessage(lg, id, type, content) ==
  [lg EXCEPT ![id] =
     Append(GetSessionMessages(lg, id), [message_type |-> type, content |-> content])]
\* ChatHistoryService.delete_session_history
DeleteSessionHistory(lg, id) == [lg EXCEPT ![id] = <<>>]

\* AIAssistantService._update_session_state: the chain, then update_session
UpdateSessionState(st, session, text, t) ==
  UpdateSession(st, AdvanceState(session, text), t)

\* process_message with the state update made before the generation call
ProcessMessageUpdatesFirst(st, id, text, gen, t) ==
  LET g == GetSession(st, id, t)
  IN  IF g.ret = NoSession
      THEN [reply |-> NotFoundReply, store |-> g.store]
      ELSE [reply |-> IF gen THEN GeneratedReply ELSE FallbackReply,
            store |-> UpdateSessionState(g.store, g.ret, text, t)]

\* AIAssistantService.process_message; gen is whether self.llm.invoke returns
\* (TRUE) or raises (FALSE)
ProcessMessage(st, id, text, gen, t) ==
  LET g == GetSession(st, id, t)
  IN  IF g.ret = NoSession
      THEN [reply |-> NotFoundReply, store |-> g.store]
      ELSE IF gen
      THEN [reply |-> GeneratedReply,
            store |-> UpdateSessionState(g.store, g.ret, text, t)]
      ELSE [reply |-> FallbackReply, store |-> g.store]

\* the sweep reading the stored status without get_session's expiry check
SweptIdsStoredStatus(st, t) ==
  {id \in Ids : st[id] # NoSession /\ st[id].status = "expired"}

\* the sweep of cleanup_expired_sessions: every listed id is read with
\* get_session and removed, with its log, when that read reports EXPIRED
SweptIds(st, t) ==
  {id \in Ids : /\ GetSession(st, id, t).ret # NoSession
                /\ GetSession(st, id, t).ret.status = "expired"}

(***************************************************************************)
(* Bookkeeping.                                                            *)
(***************************************************************************)
RECURSIVE SumLen(_, _)
SumLen(lg, ids) ==
  IF ids = {} THEN 0
  ELSE LET i == CHOOSE i \in ids : TRUE
       IN  Len(lg[i]) + SumLen(lg, ids \ {i})
TotalMsgs(lg) == SumLen(lg, Ids)
\* room for the two messages of a turn
RoomForTurn == TotalMsgs(logs) + 2 <= MaxMsgs

\* the status / step a handler reports for a session record it has loaded
StatusOf(session) == IF session = NoSession THEN "none" ELSE session.status
StepOf(session) == IF session = NoSession THEN "none" ELSE session.current_step

\* the record of an operation: what was called on which id, what it
\* reported (code, the status of the session it returned, the count of a
\* sweep, and, filled in by the handlers that report them, in `out` the
\* messages a read of a log returned and in `step` the current_step a turn
\* over HTTP or WebSocket reported), the stored status of every session before it ran and the stored
\* step of the addressed session before it ran
Outcome(op, id, code, status, count) ==
  [op |-> op, id |-> id, code |-> code, status |-> status, count |-> count,
   out |-> <<>>, step |-> "none",
   was |-> [i \in Ids |-> StatusOf(store[i])],
   from |-> IF id \in Ids THEN StepOf(store[id]) ELSE "none"]

Init ==
  /\ store = [id \in Ids |-> NoSession]
  /\ logs = [id \in Ids |-> <<>>]
  /\ wsOpen = {}
  /\ now = 0
  /\ nextId = 1
  /\ adminOps = 0
  /\ calls = [p \in Callers |-> IdleCall(0)]
  /\ writable = TRUE
  /\ faults = {}
  /\ slots = [memory |-> DefaultSlots, file |-> DefaultSlots]
  /\ last = [op |-> "init", id |-> 0, code |-> "ok", status |-> "none", count |-> 0,
             out |-> <<>>, step |-> "none",
             was |-> [i \in Ids |-> "none"], from |-> "none"]

(***************************************************************************)
(* Actions: one per handler.                                               *)
(***************************************************************************)
\* the clock advances by one timeout period (every stored time is relative
\* to a creation, so the clock is left alone until a session exists)
Tick ==
  /\ nextId > 1
  /\ now + SessionTimeoutHours <= MaxClock * SessionTimeoutHours
  /\ now' = now + SessionTimeoutHours
  /\ last' = Outcome("tick", 0, "ok",
                         "none", 0)
  /\ UNCHANGED <<store, logs, wsOpen, nextId, adminOps, calls, writable, faults, slots>>

\* the environment: opening a file of data/sessions for writing starts to
\* fail (the directory is made read-only, the disk fills up) ...
StorageFails ==
  /\ writable
  /\ writable' = FALSE
  /\ last' = Outcome("storage_fails", 0, "ok",
                         "none", 0)
  /\ UNCHANGED <<store, logs, wsOpen, now, nextId, adminOps, calls, faults, slots>>

\* ... and succeeds again
StorageRecovers ==
  /\ ~writable
  /\ writable' = TRUE
  /\ last' = Outcome("storage_recovers", 0, "ok",
                         "none", 0)
  /\ UNCHANGED <<store, logs, wsOpen, now, nextId, adminOps, calls, faults, slots>>

\* POST /sessions -> SessionManager.create_session
CreateSession(email, metadata) ==
  /\ nextId \in Ids
  /\ LET session == NewSession(nextId, now, email, metadata)
     IN  /\ store' = SaveSession(store, session)
         /\ last' = Outcome("create", nextId, "ok",
                         session.status, 0)
  /\ nextId' = nextId + 1
  /\ UNCHANGED <<logs, wsOpen, now, adminOps, calls, writable, faults, slots>>

\* GET /sessions/{id} -> SessionManager.get_session
GetSessionRoute(id) ==
  LET g == GetSession(store, id, now)
  IN  /\ store' = g.store
      /\ last' = Outcome("get", id, IF g.ret = NoSession THEN "not_found" ELSE "ok",
                         StatusOf(g.ret), 0)
      /\ UNCHANGED <<logs, wsOpen, now, nextId, adminOps, calls, writable, faults, slots>>

\* DELETE /sessions/{id}: the log is deleted first, then the record; when
\* os.remove raises the request fails with the log already gone
DeleteSessionRoute(id) ==
  LET g == GetSession(store, id, now)
  IN  /\ IF g.ret = NoSession
         THEN /\ store' = g.store
              /\ logs' = logs
         ELSE /\ logs' = DeleteSessionHistory(logs, id)
              /\ store' = IF Undeletable(id) THEN g.store
                          ELSE [g.store EXCEPT ![id] = NoSession]
      /\ last' = Outcome("delete", id,
                         IF g.ret = NoSession THEN "not_found"
                         ELSE IF Undeletable(id) THEN "error" ELSE "ok",
                         StatusOf(g.ret), 0)
      /\ UNCHANGED <<wsOpen, now, nextId, adminOps, calls, writable, faults, slots>>

\* POST /chat -> send_chat_message
SendChatMessage(id, text, gen) ==
  LET g == GetSession(store, id, now)
  IN  IF g.ret = NoSession
      THEN /\ store' = g.store
           /\ last' = Outcome("chat", id, "not_found",
                         "none", 0)
           /\ UNCHANGED <<logs, wsOpen, now, nextId, adminOps, calls, writable, faults, slots>>
      ELSE IF g.ret.status # "active"
      THEN /\ store' = g.store
           /\ last' = Outcome("chat", id, "not_active",
                         g.ret.status, 0)
           /\ UNCHANGED <<logs, wsOpen, now, nextId, adminOps, calls, writable, faults, slots>>
      ELSE /\ RoomForTurn
           /\ LET logs1 == SaveMessage(logs, id, "user", text)
                  p == ProcessMessage(g.store, id, text, gen, now)
                  logs2 == SaveMessage(logs1, id, "assistant", p.reply)
                  updated == GetSession(p.store, id, now)
              IN  /\ logs' = logs2
                  /\ store' = updated.store
                  /\ last' = [Outcome("chat", id, "ok",
                         StatusOf(updated.ret), 0) EXCEPT !.step = StepOf(updated.ret)]
           /\ UNCHANGED <<wsOpen, now, nextId, adminOps, calls, writable, faults, slots>>

\* websocket_endpoint up to the receive loop
WsConnect(id) ==
  /\ id \notin wsOpen
  /\ LET g == GetSession(store, id, now)
     IN  /\ store' = g.store
         /\ wsOpen' = IF g.ret = NoSession THEN wsOpen ELSE wsOpen \cup {id}
         /\ last' = Outcome("ws_connect", id, IF g.ret = NoSession THEN "not_found" ELSE "ok",
                         StatusOf(g.ret), 0)
  /\ UNCHANGED <<logs, now, nextId, adminOps, calls, writable, faults, slots>>

\* one iteration of the receive loop of websocket_endpoint with a non-empty
\* message; reading current_step of a missing session raises, the handler
\* reports the error and leaves the loop
WsTurn(id, text, gen) ==
  /\ id \in wsOpen
  /\ RoomForTurn
  /\ LET logs1 == SaveMessage(logs, id, "user", text)
         p == ProcessMessage(store, id, text, gen, now)
         logs2 == SaveMessage(logs1, id, "assistant", p.reply)
         updated == GetSession(p.store, id, now)
     IN  /\ logs' = logs2
         /\ store' = updated.store
         /\ wsOpen' = IF updated.ret = NoSession THEN wsOpen \ {id} ELSE wsOpen
         /\ last' = [Outcome("ws_turn", id, IF updated.ret = NoSession THEN "error" ELSE "ok",
                         StatusOf(updated.ret), 0) EXCEPT !.step = StepOf(updated.ret)]
  /\ UNCHANGED <<now, nextId, adminOps, calls, writable, faults, slots>>

\* WebSocketDisconnect
WsDisconnect(id) ==
  /\ id \in wsOpen
  /\ wsOpen' = wsOpen \ {id}
  /\ last' = Outcome("ws_disconnect", id, "ok",
                         "none", 0)
  /\ UNCHANGED <<store, logs, now, nextId, adminOps, calls, writable, faults, slots>>

\* a direct call of AIAssistantService.process_message
ProcessMessageCall(id, text, gen) ==
  LET p == ProcessMessage(store, id, text, gen, now)
  IN  /\ store' = p.store
      /\ last' = Outcome("process", id, IF p.reply = NotFoundReply THEN "not_found" ELSE "ok",
                         StatusOf(p.store[id]), 0)
      /\ UNCHANGED <<logs, wsOpen, now, nextId, adminOps, calls, writable, faults, slots>>

\* process_message followed step by step, for callers whose calls may
\* overlap.  First the call up to self.llm.invoke: get_session (with its
\* expiry flip) and the read of the recent messages; a missing session ends
\* the call at once with the not-found text.
BeginProcessMessage(p, id, text) ==
  /\ calls[p].pc = "idle"
  /\ calls[p].made < MaxTurns
  /\ LET g == GetSession(store, id, now)
     IN  /\ store' = g.store
         /\ IF g.ret = NoSession
            THEN /\ calls' = [calls EXCEPT ![p] = IdleCall(calls[p].made + 1)]
                 /\ last' = Outcome("process", id, "not_found",
                         "none", 0)
            ELSE /\ calls' = [calls EXCEPT ![p] =
                                [pc |-> "invoke", id |-> id, text |-> text,
                                 session |-> g.ret, made |-> calls[p].made,
                                 messages |-> <<>>, reply |-> <<>>]]
                 /\ last' = Outcome("process_begin", id, "ok",
                         g.ret.status, 0)
  /\ UNCHANGED <<logs, wsOpen, now, nextId, adminOps, writable, faults, slots>>

\* then self.llm.invoke returns (gen) or raises: _update_session_state on the
\* record this call loaded, written back whole by update_session, or the
\* fallback reply with nothing written
FinishProcessMessage(p, gen) ==
  /\ calls[p].pc = "invoke"
  /\ store' = IF gen
              THEN UpdateSessionState(store, calls[p].session, calls[p].text, now)
              ELSE store
  /\ calls' = [calls EXCEPT ![p] = IdleCall(calls[p].made + 1)]
  /\ last' = Outcome("process", calls[p].id, "ok",
                         StatusOf(store'[calls[p].id]), 0)
  /\ UNCHANGED <<logs, wsOpen, now, nextId, adminOps, writable, faults, slots>>

\* SessionManager.save_chat_message -> ChatHistoryService.save_message
SaveChatMessage(id, type, content) ==
  /\ TotalMsgs(logs) + 1 <= MaxMsgs
  /\ logs' = SaveMessage(logs, id, type, content)
  /\ last' = Outcome("save_message", id, "ok",
                         "none", 0)
  /\ UNCHANGED <<store, wsOpen, now, nextId, adminOps, calls, writable, faults, slots>>

\* a call of ChatHistoryService.get_session_messages
ReadSessionMessages(id) ==
  /\ last' = [Outcome("get_messages", id, "ok",
                         "none", 0) EXCEPT !.out = GetSessionMessages(logs, id)]
  /\ UNCHANGED <<store, logs, wsOpen, now, nextId, adminOps, calls, writable, faults, slots>>

\* a call of ChatHistoryService.get_recent_messages; the outcome keeps the
\* limit in `count`
ReadRecentMessages(id, limit) ==
  /\ last' = [Outcome("get_recent", id, "ok",
                         "none", limit) EXCEPT !.out = GetRecentMessages(logs, id, limit)]
  /\ UNCHANGED <<store, logs, wsOpen, now, nextId, adminOps, calls, writable, faults, slots>>

\* save_message followed step by step, for callers whose calls may overlap.
\* First the load of the whole log and the append to the list in memory ...
BeginSaveMessage(p, id, type, content) ==
  /\ calls[p].pc = "idle"
  /\ calls' = [calls EXCEPT ![p] =
                 [pc |-> "write", id |-> id, text |-> content,
                  session |-> NoSession, made |-> calls[p].made,
                  messages |-> Append(GetSessionMessages(logs, id),
                                      [message_type |-> type, content |-> content]),
                  reply |-> <<>>]]
  /\ last' = Outcome("save_begin", id, "ok",
                         "none", 0)
  /\ UNCHANGED <<store, logs, wsOpen, now, nextId, adminOps, writable, faults, slots>>

\* ... then open(file_path, 'w') and json.dump of that list: the file is
\* rewritten whole with the messages this call holds
FinishSaveMessage(p) ==
  /\ calls[p].pc = "write"
  /\ logs' = [logs EXCEPT ![calls[p].id] = calls[p].messages]
  /\ calls' = [calls EXCEPT ![p] = IdleCall(calls[p].made + 1)]
  /\ last' = Outcome("save_message", calls[p].id, "ok",
                         "none", 0)
  /\ UNCHANGED <<store, wsOpen, now, nextId, adminOps, writable, faults, slots>>

\* the turn that goes on to the generator without appending the user message
ChatGenerateWithoutUserMessage(p, id, text) ==
  /\ calls[p].pc = "idle"
  /\ TotalMsgs(logs) + 2 <= MaxTurnMsgs
  /\ LET g == GetSession(store, id, now)
     IN  /\ g.ret # NoSession
         /\ g.ret.status = "active"
         /\ store' = g.store
         /\ calls' = [calls EXCEPT ![p] =
                        [pc |-> "generate", id |-> id, text |-> text,
                         session |-> NoSession, made |-> calls[p].made,
                         messages |-> <<>>, reply |-> <<>>]]
         /\ last' = Outcome("chat_begin", id, "ok",
                         g.ret.status, 0)
  /\ UNCHANGED <<logs, wsOpen, now, nextId, adminOps, writable, faults, slots>>

\* POST /chat followed step by step.  First get_session with the 404 and 400
\* answers, and the user message appended to the log.
ChatAppendUser(p, id, text) ==
  /\ calls[p].pc = "idle"
  /\ TotalMsgs(logs) + 2 <= MaxTurnMsgs
  /\ LET g == GetSession(store, id, now)
     IN  /\ store' = g.store
         /\ IF g.ret = NoSession
            THEN /\ last' = Outcome("chat", id, "not_found",
                         "none", 0)
                 /\ UNCHANGED <<logs, calls>>
            ELSE IF g.ret.status # "active"
            THEN /\ last' = Outcome("chat", id, "not_active",
                         g.ret.status, 0)
                 /\ UNCHANGED <<logs, calls>>
            ELSE /\ logs' = SaveMessage(logs, id, "user", text)
                 /\ calls' = [calls EXCEPT ![p] =
                                [pc |-> "generate", id |-> id, text |-> text,
                                 session |-> NoSession, made |-> calls[p].made,
                                 messages |-> <<>>, reply |-> <<>>]]
                 /\ last' = Outcome("chat_begin", id, "ok",
                         g.ret.status, 0)
  /\ UNCHANGED <<wsOpen, now, nextId, adminOps, writable, faults, slots>>

\* process_message's conversation context: the system prompt for the session,
\* the recent messages in log order (a user message as it is, an assistant
\* message behind a prefix as a system message, any other type left out),
\* then the current user message
SystemPrompt(session) == <<"(system prompt)", session.current_step>>
AssistantPrefix == <<"Assistant previously said: ">>
RECURSIVE ContextEntries(_)
ContextEntries(messages) ==
  IF messages = <<>> THEN <<>>
  ELSE LET msg == Head(messages)
           entry == IF msg.message_type = "user"
                    THEN <<[role |-> "human", content |-> msg.content]>>
                    ELSE IF msg.message_type = "assistant"
                    THEN <<[role |-> "system", content |-> AssistantPrefix \o msg.content]>>
                    ELSE <<>>
       IN  entry \o ContextEntries(Tail(messages))
BuildContext(session, recent, text) ==
  <<[role |-> "system", content |-> SystemPrompt(session)]>>
    \o ContextEntries(recent)
    \o <<[role |-> "human", content |-> text]>>

\* then process_message up to the return of self.llm.invoke: get_session, the
\* read of the recent messages, and the generator answering (gen) or raising
ChatGenerate(p, gen) ==
  /\ calls[p].pc = "generate"
  /\ LET g == GetSession(store, calls[p].id, now)
     IN  /\ store' = g.store
         /\ calls' = [calls EXCEPT ![p] =
                        IF g.ret = NoSession
                        THEN [@ EXCEPT !.pc = "append_assistant", !.reply = NotFoundReply]
                        ELSE IF gen
                        THEN [@ EXCEPT !.pc = "persist", !.session = g.ret,
                                       !.reply = GeneratedReply]
                        ELSE [@ EXCEPT !.pc = "append_assistant", !.reply = FallbackReply]]
         /\ last' = [Outcome("chat_generate", calls[p].id, "ok",
                         StatusOf(g.ret), 0)
                       EXCEPT !.out = IF g.ret = NoSession THEN <<>>
                                      ELSE BuildContext(g.ret,
                                             GetRecentMessages(logs, calls[p].id, RecentLimit),
                                             calls[p].text)]
  /\ UNCHANGED <<logs, wsOpen, now, nextId, adminOps, writable, faults, slots>>

\* the state update written in two parts, current_step before patient_info
ChatPersistStepFirst(p) ==
  /\ calls[p].pc = "persist"
  /\ store' = UpdateSession(store,
                [calls[p].session EXCEPT
                   !.current_step = AdvanceState(calls[p].session, calls[p].text).current_step],
                now)
  /\ calls' = [calls EXCEPT ![p].pc = "append_assistant"]
  /\ last' = Outcome("chat_persist", calls[p].id, "ok",
                         StatusOf(store'[calls[p].id]), 0)
  /\ UNCHANGED <<logs, wsOpen, now, nextId, adminOps, writable, faults, slots>>

\* then _update_session_state on the record process_message loaded, written
\* back whole by update_session
ChatPersist(p) ==
  /\ calls[p].pc = "persist"
  /\ store' = UpdateSessionState(store, calls[p].session, calls[p].text, now)
  /\ calls' = [calls EXCEPT ![p].pc = "append_assistant"]
  /\ last' = Outcome("chat_persist", calls[p].id, "ok",
                         StatusOf(store'[calls[p].id]), 0)
  /\ UNCHANGED <<logs, wsOpen, now, nextId, adminOps, writable, faults, slots>>

\* then the reply appended to the log, and get_session for the response
ChatAppendAssistant(p) ==
  /\ calls[p].pc = "append_assistant"
  /\ logs' = SaveMessage(logs, calls[p].id, "assistant", calls[p].reply)
  /\ LET updated == GetSession(store, calls[p].id, now)
     IN  /\ store' = updated.store
         /\ last' = [Outcome("chat", calls[p].id, "ok",
                         StatusOf(updated.ret), 0) EXCEPT !.step = StepOf(updated.ret)]
  /\ calls' = [calls EXCEPT ![p] = IdleCall(calls[p].made + 1)]
  /\ UNCHANGED <<wsOpen, now, nextId, adminOps, writable, faults, slots>>

\* the server process stops between two steps of the requests in flight and
\* is started again: what the requests held in memory is gone, the files
\* stay as they are
Crash ==
  /\ \E p \in Callers : calls[p].pc # "idle"
  /\ calls' = [p \in Callers |->
                 IF calls[p].pc = "idle" THEN calls[p]
                 ELSE IdleCall(calls[p].made + 1)]
  /\ last' = Outcome("crash", 0, "ok",
                         "none", 0)
  /\ UNCHANGED <<store, logs, wsOpen, now, nextId, adminOps, writable, faults, slots>>

\* the orders in which os.listdir may list the session files
ListingOrders ==
  {order \in [1..Cardinality(Ids) -> Ids] :
     \A i, j \in DOMAIN order : order[i] = order[j] => i = j}
\* the sweep's loop over the files in a listing order: the place in the
\* order where os.remove raises (the exception leaves the loop), or one past
\* the end when it never does
SweepStop(st, t, order) ==
  LET failing == {k \in DOMAIN order :
                    order[k] \in SweptIds(st, t) /\ Undeletable(order[k])}
  IN  IF failing = {} THEN Len(order) + 1
      ELSE CHOOSE k \in failing : \A j \in failing : k <= j
\* the ids whose record and log the loop removed before it ended
SweepRemoved(st, t, order) ==
  {order[k] : k \in {j \in DOMAIN order : j < SweepStop(st, t, order)}}
    \cap SweptIds(st, t)

\* the sweep leaving the message logs in place
CleanupKeepsLogs ==
  \E order \in ListingOrders :
    LET removed == SweepRemoved(store, now, order)
    IN  /\ store' = [id \in Ids |-> IF id \in removed THEN NoSession ELSE store[id]]
        /\ logs' = logs
        /\ last' = Outcome("cleanup", 0, "ok",
                         "none", Cardinality(removed))
        /\ UNCHANGED <<wsOpen, now, nextId, adminOps, calls, writable, faults, slots>>

\* POST /cleanup -> SessionManager.cleanup_expired_sessions: every listed id
\* is read with get_session; an EXPIRED one has its record removed, then its
\* log, and is counted.  The record at which os.remove raises has been read
\* (and its expiry flip persisted) but is kept, and the loop ends there.
CleanupExpiredSessions ==
  \E order \in ListingOrders :
    LET stop == SweepStop(store, now, order)
        removed == SweepRemoved(store, now, order)
    IN  /\ store' = [id \in Ids |->
                       IF id \in removed THEN NoSession
                       ELSE IF stop \in DOMAIN order /\ order[stop] = id
                       THEN GetSession(store, id, now).store[id]
                       ELSE store[id]]
        /\ logs' = [id \in Ids |-> IF id \in removed THEN <<>> ELSE logs[id]]
        /\ last' = Outcome("cleanup", 0, "ok",
                         "none", Cardinality(removed))
        /\ UNCHANGED <<wsOpen, now, nextId, adminOps, calls, writable, faults, slots>>

\* the listing of get_all_sessions in the order of the ids
RECURSIVE ListFrom(_, _, _, _)
ListFrom(st, t, filter, id) ==
  IF id \notin Ids THEN <<>>
  ELSE LET session == GetSession(st, id, t).ret
           rest == ListFrom(st, t, filter, id + 1)
       IN  IF session # NoSession /\ (filter = NoFilter \/ session.status = filter)
           THEN <<session>> \o rest
           ELSE rest

\* the listing that ignores the status filter
ListSessionsIgnoresFilter(filter) ==
  /\ store' = [id \in Ids |-> GetSession(store, id, now).store[id]]
  /\ last' = [Outcome("list", 0, "ok",
                         filter, 0) EXCEPT !.out = ListFrom(store, now, NoFilter, 1)]
  /\ UNCHANGED <<logs, wsOpen, now, nextId, adminOps, calls, writable, faults, slots>>

\* GET /sessions -> SessionManager.get_all_sessions: every listed id is read
\* with get_session (which persists its expiry flips); the sessions read and
\* passing the filter are returned
ListSessions(filter) ==
  /\ store' = [id \in Ids |-> GetSession(store, id, now).store[id]]
  /\ last' = [Outcome("list", 0, "ok",
                         filter, 0) EXCEPT !.out = ListFrom(store, now, filter, 1)]
  /\ UNCHANGED <<logs, wsOpen, now, nextId, adminOps, calls, writable, faults, slots>>

\* the environment: a file becomes unreadable or unremovable ...
FaultAppears(kind, id) ==
  /\ <<kind, id>> \notin faults
  /\ faults' = faults \cup {<<kind, id>>}
  /\ last' = Outcome("fault_appears", id, "ok",
                         "none", 0)
  /\ UNCHANGED <<store, logs, wsOpen, now, nextId, adminOps, calls, writable, slots>>

\* ... and is repaired
FaultClears(kind, id) ==
  /\ <<kind, id>> \in faults
  /\ faults' = faults \ {<<kind, id>>}
  /\ last' = Outcome("fault_clears", id, "ok",
                         "none", 0)
  /\ UNCHANGED <<store, logs, wsOpen, now, nextId, adminOps, calls, writable, slots>>

\* reserve_slot taking a slot whether it is available or not
ReserveSlotIgnoresAvailability(doctor, date, time) ==
  LET key == <<doctor, date, time>>
  IN  /\ IF key \in SlotKeys
         THEN LET marked == [slots.memory EXCEPT ![key] = FALSE]
              IN  /\ slots' = [memory |-> marked, file |-> marked]
                  /\ last' = [Outcome("reserve", 0, "true",
                         "none", 0) EXCEPT !.out = <<key>>]
         ELSE /\ slots' = slots
              /\ last' = [Outcome("reserve", 0, "false",
                         "none", 0) EXCEPT !.out = <<key>>]
      /\ UNCHANGED <<store, logs, wsOpen, now, nextId, adminOps, calls, writable, faults>>

\* AIAssistantService.reserve_slot: the first listed slot of the doctor with
\* this date and time that is available is marked in the table of the
\* service, the whole table is written to available_slots.json and True is
\* returned; when the file cannot be opened the exception leaves the method
\* with the slot marked in memory only.  False in every other case.
ReserveSlot(doctor, date, time) ==
  LET key == <<doctor, date, time>>
  IN  /\ IF key \in SlotKeys /\ slots.memory[key]
         THEN LET marked == [slots.memory EXCEPT ![key] = FALSE]
              IN  IF SlotsUnwritable
                  THEN /\ slots' = [slots EXCEPT !.memory = marked]
                       /\ last' = [Outcome("reserve", 0, "error",
                         "none", 0) EXCEPT !.out = <<key>>]
                  ELSE /\ slots' = [memory |-> marked, file |-> marked]
                       /\ last' = [Outcome("reserve", 0, "true",
                         "none", 0) EXCEPT !.out = <<key>>]
         ELSE /\ slots' = slots
              /\ last' = [Outcome("reserve", 0, "false",
                         "none", 0) EXCEPT !.out = <<key>>]
      /\ UNCHANGED <<store, logs, wsOpen, now, nextId, adminOps, calls, writable, faults>>

\* AIAssistantService.get_available_slots_for_doctor: the available slots
\* of the doctor in list order, none for a doctor the table does not hold
GetAvailableSlotsForDoctor(doctor) ==
  /\ last' = [Outcome("available_slots", 0, "ok",
                         doctor, 0)
               EXCEPT !.out = SelectSeq(DefaultSlotList,
                                LAMBDA key : key[1] = doctor /\ slots.memory[key])]
  /\ UNCHANGED <<store, logs, wsOpen, now, nextId, adminOps, calls, writable, faults, slots>>

\* the service is constructed again (the server is restarted):
\* _load_available_slots reads the table from available_slots.json
ReloadSlots ==
  /\ slots' = [slots EXCEPT !.memory = slots.file]
  /\ last' = Outcome("reload_slots", 0, "ok",
                         "none", 0)
  /\ UNCHANGED <<store, logs, wsOpen, now, nextId, adminOps, calls, writable, faults>>

\* SessionManager.update_booking_step
UpdateBookingStep(id, step) ==
  /\ adminOps < MaxAdminOps
  /\ LET g == GetSession(store, id, now)
     IN  /\ store' = IF g.ret = NoSession THEN g.store
                     ELSE UpdateSession(g.store, [g.ret EXCEPT !.current_step = step], now)
         /\ last' = Outcome("update_step", id, UpdateCode(g.ret),
                         StatusOf(g.ret), 0)
  /\ adminOps' = adminOps + 1
  /\ UNCHANGED <<logs, wsOpen, now, nextId, calls, writable, faults, slots>>

\* SessionManager.update_patient_info
UpdatePatientInfo(id, field, value) ==
  /\ adminOps < MaxAdminOps
  /\ LET g == GetSession(store, id, now)
     IN  /\ store' = IF g.ret = NoSession THEN g.store
                     ELSE UpdateSession(g.store,
                                        [g.ret EXCEPT !.patient_info[field] = value], now)
         /\ last' = Outcome("update_info", id, UpdateCode(g.ret),
                         StatusOf(g.ret), 0)
  /\ adminOps' = adminOps + 1
  /\ UNCHANGED <<logs, wsOpen, now, nextId, calls, writable, faults, slots>>

\* SessionManager.update_session called with a record the caller loaded by
\* get_session and whose status it set
UpdateSessionCall(id, status) ==
  /\ adminOps < MaxAdminOps
  /\ LET g == GetSession(store, id, now)
     IN  /\ g.ret # NoSession
         /\ store' = UpdateSession(g.store, [g.ret EXCEPT !.status = status], now)
         /\ last' = Outcome("update_session", id, UpdateCode(g.ret),
                         status, 0)
  /\ adminOps' = adminOps + 1
  /\ UNCHANGED <<logs, wsOpen, now, nextId, calls, writable, faults, slots>>

\* (patient_email, metadata) of the create requests
CreateInputs == {<<None, NoMetadata>>, <<SomeEmail, SomeMetadata>>}

(***************************************************************************)
(* Specifications.  SpecLifecycle: creation, reads, expiry, deletion, the  *)
(* sweep and turns over HTTP and WebSocket as the clock advances.          *)
(* SpecBooking: the booking conversation at a fixed instant, with sessions *)
(* at any step and with preset patient fields.                             *)
(***************************************************************************)
NextLifecycle ==
  \/ Tick
  \/ \E c \in CreateInputs : nextId \in Creatable /\ CreateSession(c[1], c[2])
  \/ \E id \in Ids : GetSessionRoute(id)
  \/ \E id \in Ids : DeleteSessionRoute(id)
  \/ \E id \in Ids, text \in Texts, gen \in BOOLEAN : SendChatMessage(id, text, gen)
  \/ \E id \in Ids : WsConnect(id)
  \/ \E id \in Ids, text \in Texts, gen \in BOOLEAN : WsTurn(id, text, gen)
  \/ \E id \in Ids : WsDisconnect(id)
  \/ CleanupExpiredSessions
  \/ \E id \in Ids, status \in SessionStatus : UpdateSessionCall(id, status)

SpecLifecycle == Init /\ [][NextLifecycle]_vars

NextBooking ==
  \/ nextId \in Creatable /\ CreateSession(None, NoMetadata)
  \/ \E id \in Creatable, text \in Texts, gen \in BOOLEAN : SendChatMessage(id, text, gen)
  \/ \E id \in Creatable : WsConnect(id)
  \/ \E id \in Creatable, text \in Texts, gen \in BOOLEAN : WsTurn(id, text, gen)
  \/ \E id \in Creatable : WsDisconnect(id)
  \/ \E id \in Creatable, text \in Texts, gen \in BOOLEAN : ProcessMessageCall(id, text, gen)
  \/ \E id \in Creatable, step \in Steps : UpdateBookingStep(id, step)
  \/ \E id \in Creatable, field \in InfoFields : UpdatePatientInfo(id, field, PresetValue)

SpecBooking == Init /\ [][NextBooking]_vars


(***************************************************************************)
(* The texts of the scenarios, for the extraction rules of each step.      *)
(***************************************************************************)
\* Scenario B: a name of two tokens
TextJohnDoe ==
  <<"J","o","h","n"," ","D","o","e">>
\* Scenario B: one token with digits
TextAbc123 ==
  <<"a","b","c","1","2","3">>
\* alphabetic, four tokens
TextMyNameIsJohn ==
  <<"m","y"," ","n","a","m","e"," ","i","s"," ","J","o","h","n">>
\* a name with blanks around it
TextPadded ==
  <<" ","A","n","n"," ">>
\* nothing but a blank
TextBlank ==
  <<" ">>
\* Scenario C: a phone number after words; the leftmost run of phone
\* characters is the blank after "call"
TextCallMeAt ==
  <<"c","a","l","l"," ","m","e"," ","a","t"," ","5","5","5","-","1","2","3",
    "-","4","5","6","7">>
\* Scenario C: five digits
TextDigits5 ==
  <<"1","2","3","4","5">>
\* the phone number alone (also the third input of the booking-flow test)
TextFlowPhone ==
  <<"5","5","5","-","1","2","3","-","4","5","6","7">>
\* Scenario D
TextDrJohnson ==
  <<"I","'","d"," ","l","i","k","e"," ","D","r","."," ","J","o","h","n","s",
    "o","n"," ","p","l","e","a","s","e">>
\* two doctors, the later one in the order of the code first
TextBrownOrSmith ==
  <<"D","r","."," ","B","r","o","w","n"," ","o","r"," ","D","r","."," ","S",
    "m","i","t","h">>
ScenarioTexts ==
  {TextHi, TextJohnDoe, TextAbc123, TextMyNameIsJohn, TextPadded, TextBlank,
   TextCallMeAt, TextDigits5, TextFlowPhone, TextDrJohnson, TextBrownOrSmith}

(***************************************************************************)
(* The inputs of test_complete_booking_flow, in the order it sends them.   *)
(***************************************************************************)
TextFlowHello ==
  <<"H","e","l","l","o",","," ","I","'","d"," ","l","i","k","e"," ","t","o",
    " ","b","o","o","k"," ","a","n"," ","a","p","p","o","i","n","t","m","e",
    "n","t">>
TextFlowSymptoms ==
  <<"I"," ","h","a","v","e"," ","b","e","e","n"," ","h","a","v","i","n","g",
    " ","h","e","a","d","a","c","h","e","s"," ","a","n","d"," ","f","e","e",
    "l","i","n","g"," ","d","i","z","z","y">>
TextFlowDoctor ==
  <<"I","'","d"," ","p","r","e","f","e","r"," ","D","r","."," ","S","m","i",
    "t","h">>
TextFlowSlot ==
  <<"I","'","l","l"," ","t","a","k","e"," ","t","h","e"," ","9",":","0","0",
    " ","A","M"," ","s","l","o","t"," ","o","n"," ","J","a","n","u","a","r",
    "y"," ","1","5","t","h">>
TextFlowConfirm ==
  <<"Y","e","s",","," ","p","l","e","a","s","e"," ","c","o","n","f","i","r",
    "m"," ","t","h","e"," ","a","p","p","o","i","n","t","m","e","n","t">>
FlowInputs ==
  <<TextFlowHello, TextJohnDoe, TextFlowPhone, TextFlowSymptoms, TextFlowDoctor,
    TextFlowSlot, TextFlowConfirm>>
FlowTexts == Range(FlowInputs)

\* SpecScenario: one session taking process_message calls with the scenario
\* texts, its name possibly set beforehand by update_patient_info.
NextScenario ==
  \/ nextId \in Creatable /\ CreateSession(None, NoMetadata)
  \/ \E id \in Creatable, text \in ScenarioTexts, gen \in BOOLEAN :
       ProcessMessageCall(id, text, gen)
  \/ \E id \in Creatable : UpdatePatientInfo(id, "name", PresetValue)

SpecScenario == Init /\ [][NextScenario]_vars

\* SpecFlow: one caller making its process_message calls one after the other
\* on one session, with the inputs of the booking-flow test in any order.
NextFlow ==
  \/ nextId \in Creatable /\ CreateSession(SomeEmail, NoMetadata)
  \/ \E id \in Creatable, text \in FlowTexts : BeginProcessMessage(1, id, text)
  \/ \E gen \in BOOLEAN : FinishProcessMessage(1, gen)

SpecFlow == Init /\ [][NextFlow]_vars

\* SpecStore: the session store alone, with every id created, read and
\* deleted as the clock advances.
NextStore ==
  \/ Tick
  \/ \E c \in CreateInputs : CreateSession(c[1], c[2])
  \/ \E id \in Ids : GetSessionRoute(id)
  \/ \E id \in Ids : DeleteSessionRoute(id)

SpecStore == Init /\ [][NextStore]_vars

\* SpecStorageFault: the store and the turns over HTTP while writes of
\* session records fail and recover.
NextStorageFault ==
  \/ StorageFails
  \/ StorageRecovers
  \/ \E c \in CreateInputs : CreateSession(c[1], c[2])
  \/ \E id \in Ids : GetSessionRoute(id)
  \/ \E id \in Ids, gen \in BOOLEAN : SendChatMessage(id, TextHi, gen)
  \/ \E id \in Ids, status \in SessionStatus : UpdateSessionCall(id, status)

SpecStorageFault == Init /\ [][NextStorageFault]_vars

\* SpecLog: the message log alone: messages saved and read back, whole or
\* the most recent ones.
LogContents == {TextHi, TextPhone, GeneratedReply}
NextLog ==
  \/ \E id \in Ids, type \in {"user", "assistant"}, content \in LogContents :
       SaveChatMessage(id, type, content)
  \/ \E id \in Ids : ReadSessionMessages(id)
  \/ \E id \in Ids, limit \in 0..MaxLimit : ReadRecentMessages(id, limit)

SpecLog == Init /\ [][NextLog]_vars

\* SpecConcurrent: two callers whose process_message calls on one session
\* may overlap: each call loads the record, waits for the generator, and
\* writes its copy of the record back.  Nothing in process_message or in
\* SessionManager takes a lock.
CallsStarted ==
  calls[1].made + calls[2].made
    + Cardinality({p \in Callers : calls[p].pc # "idle"})
NextConcurrent ==
  \/ nextId \in Creatable /\ CreateSession(None, NoMetadata)
  \/ \E p \in Callers, id \in Creatable, text \in Texts :
       CallsStarted < MaxCalls /\ BeginProcessMessage(p, id, text)
  \/ \E p \in Callers, gen \in BOOLEAN : FinishProcessMessage(p, gen)

SpecConcurrent == Init /\ [][NextConcurrent]_vars

\* SpecSweep: two sessions with their logs, listed and swept as the clock
\* advances, while single records become unreadable and readable again.
NextSweep ==
  \/ Tick
  \/ CreateSession(None, NoMetadata)
  \/ \E id \in Ids : UpdateSessionCall(id, "completed")
  \/ SaveChatMessage(1, "user", TextHi)
  \/ \E filter \in SessionStatus \cup {NoFilter} : ListSessions(filter)
  \/ CleanupExpiredSessions
  \/ \E id \in Ids : FaultAppears("read", id)
  \/ \E id \in Ids : FaultClears("read", id)

SpecSweep == Init /\ [][NextSweep]_vars

\* SpecSweepFault: two sessions swept as the clock advances, while single
\* records become unreadable or unremovable.
NextSweepFault ==
  \/ Tick
  \/ CreateSession(None, NoMetadata)
  \/ \E id \in Ids : GetSessionRoute(id)
  \/ CleanupExpiredSessions
  \/ \E kind \in {"read", "remove"}, id \in Ids : FaultAppears(kind, id)
  \/ \E kind \in {"read", "remove"}, id \in Ids : FaultClears(kind, id)

SpecSweepFault == Init /\ [][NextSweepFault]_vars

\* SpecLogFault: messages appended and read back while the log file of a
\* session cannot be loaded (unreadable, or not the JSON of a message list)
\* and can again.
NextLogFault ==
  \/ \E id \in Ids, type \in {"user", "assistant"}, content \in {TextHi, GeneratedReply} :
       SaveChatMessage(id, type, content)
  \/ \E id \in Ids : ReadSessionMessages(id)
  \/ \E id \in Ids : FaultAppears("log_read", id)
  \/ \E id \in Ids : FaultClears("log_read", id)

SpecLogFault == Init /\ [][NextLogFault]_vars

\* SpecAppend: two callers whose save_message calls may overlap.  Nothing
\* in ChatHistoryService takes a lock.
AppendsStarted ==
  calls[1].made + calls[2].made
    + Cardinality({p \in Callers : calls[p].pc # "idle"})
NextAppend ==
  \/ \E p \in Callers, id \in Ids, content \in {TextHi, TextPhone} :
       AppendsStarted < MaxAppends /\ BeginSaveMessage(p, id, "user", content)
  \/ \E p \in Callers : FinishSaveMessage(p)

SpecAppend == Init /\ [][NextAppend]_vars

\* SpecTurn: POST /chat requests made one after the other and followed step
\* by step, with the server process stopping between steps.
NextTurn ==
  \/ nextId \in Creatable /\ CreateSession(None, NoMetadata)
  \/ \E id \in Ids, text \in Texts : ChatAppendUser(1, id, text)
  \/ \E gen \in BOOLEAN : ChatGenerate(1, gen)
  \/ ChatPersist(1)
  \/ ChatAppendAssistant(1)
  \/ Crash

SpecTurn == Init /\ [][NextTurn]_vars

\* SpecAttributes: one session, created with or without metadata, read,
\* updated by every SessionManager update method and by turns as the clock
\* advances.
NextAttributes ==
  \/ Tick
  \/ \E c \in CreateInputs : nextId \in Creatable /\ CreateSession(c[1], c[2])
  \/ \E id \in Creatable : GetSessionRoute(id)
  \/ \E id \in Creatable : UpdateSessionCall(id, "completed")
  \/ \E id \in Creatable : UpdatePatientInfo(id, "name", PresetValue)
  \/ \E id \in Creatable : UpdateBookingStep(id, "confirmation")
  \/ \E id \in Creatable, text \in {TextHi, TextDoctorYes}, gen \in BOOLEAN :
       ProcessMessageCall(id, text, gen)

SpecAttributes == Init /\ [][NextAttributes]_vars

\* SpecStatus: one session taken to the last step by turns (after
\* update_booking_step has put it at confirmation), read, sent further
\* turns and swept as the clock advances.  No caller changes the status.
NextStatus ==
  \/ Tick
  \/ nextId \in Creatable /\ CreateSession(None, NoMetadata)
  \/ \E id \in Creatable : GetSessionRoute(id)
  \/ \E id \in Creatable : UpdateBookingStep(id, "confirmation")
  \/ \E id \in Creatable, text \in {TextHi, TextDoctorYes}, gen \in BOOLEAN :
       ProcessMessageCall(id, text, gen)
  \/ \E id \in Creatable, text \in {TextHi, TextDoctorYes}, gen \in BOOLEAN :
       SendChatMessage(id, text, gen)
  \/ CleanupExpiredSessions

SpecStatus == Init /\ [][NextStatus]_vars

\* SpecExpiry: one session read as the clock advances, while two callers'
\* process_message calls write back the copies they loaded earlier, and
\* deleted in the end.
NextExpiry ==
  \/ Tick
  \/ nextId \in Creatable /\ CreateSession(None, NoMetadata)
  \/ \E id \in Creatable : GetSessionRoute(id)
  \/ \E p \in Callers, id \in Creatable :
       CallsStarted < MaxCalls /\ BeginProcessMessage(p, id, TextHi)
  \/ \E p \in Callers, gen \in BOOLEAN : FinishProcessMessage(p, gen)
  \/ \E id \in Creatable : DeleteSessionRoute(id)

SpecExpiry == Init /\ [][NextExpiry]_vars

\* SpecSlots: slots reserved and listed on one AIAssistantService, which is
\* constructed again from time to time, while available_slots.json becomes
\* unwritable and writable again.
NextSlots ==
  \/ \E key \in SlotRequests : ReserveSlot(key[1], key[2], key[3])
  \/ \E doctor \in DoctorKeys \cup {UnknownDoctor} : GetAvailableSlotsForDoctor(doctor)
  \/ ReloadSlots
  \/ FaultAppears("slots_write", 0)
  \/ FaultClears("slots_write", 0)

SpecSlots == Init /\ [][NextSlots]_vars


(***************************************************************************)
(* Properties.                                                             *)
(***************************************************************************)
\* the operations that are turns: POST /chat, a WebSocket message, a direct
\* process_message call
TurnOps == {"chat", "ws_turn", "process"}
\* a session id has a stored record before and after the step
Kept(id) == store[id] # NoSession /\ store'[id] # NoSession
\* the advance condition of the current step, as the code tests it
AdvanceCondition(session, text) ==
  CASE session.current_step = "greeting" -> GreetingMatch(text)
    [] session.current_step = "name_collection" -> NameMatch(session.patient_info, text)
    [] session.current_step = "phone_collection" -> PhoneAccept(text)
    [] session.current_step = "symptoms_collection" -> SymptomsMatch(session.patient_info)
    [] session.current_step = "doctor_preference" -> DoctorMatch(text)
    [] session.current_step = "slot_selection" -> SlotMatch(text)
    [] session.current_step = "confirmation" -> ConfirmMatch(text)
    [] OTHER -> FALSE
\* a turn with this text, by any entry path, generation succeeding
SuccessfulTurn(id, text) ==
  \/ SendChatMessage(id, text, TRUE)
  \/ WsTurn(id, text, TRUE)
  \/ ProcessMessageCall(id, text, TRUE)
\* a logged turn (POST /chat or WebSocket) whose generation call raises
FailedLoggedTurn(id, text) ==
  \/ SendChatMessage(id, text, FALSE)
  \/ WsTurn(id, text, FALSE)
\* the last two entries of a log are the user text and the given reply
EndsWithTurn(log, text, reply) ==
  /\ Len(log) >= 2
  /\ log[Len(log) - 1] = [message_type |-> "user", content |-> text]
  /\ log[Len(log)] = [message_type |-> "assistant", content |-> reply]

\* C1: in every turn (POST /chat, WebSocket message or process_message call,
\* generation succeeding or failing) the stored current_step of the session
\* does not move backward in the order of BookingStep.
C1_StepNeverMovesBackward ==
  [][last'.op \in TurnOps =>
       \A id \in Ids :
         Kept(id) => StepIndex(store'[id].current_step)
                       >= StepIndex(store[id].current_step)]_vars
\* C1 witness: a POST /chat turn has just moved a session that was only ever
\* driven by turns from name_collection to phone_collection.
C1_Witness ==
  /\ last.op = "chat" /\ last.code = "ok" /\ last.id = 1
  /\ adminOps = 0
  /\ last.from = "name_collection"
  /\ store[1] # NoSession
  /\ store[1].current_step = "phone_collection"

\* C2: a get_session of a stored session returns Expired, and leaves Expired
\* stored, whenever now > expires_at, whatever the stored status was; when
\* now <= expires_at it returns the stored status and leaves it stored.
C2_GetExpiresWhateverTheStatus ==
  (last.op = "get" /\ last.code = "ok") =>
    /\ store[last.id] # NoSession
    /\ last.status = store[last.id].status
    /\ IF now > store[last.id].expires_at
       THEN last.status = "expired"
       ELSE last.status = last.was[last.id]
\* C2 witness: a get has returned Expired for a session stored as Completed.
C2_Witness ==
  /\ last.op = "get" /\ last.code = "ok"
  /\ last.was[last.id] = "completed"
  /\ last.status = "expired"
  /\ store[last.id].status = "expired"
\* the other case of C2: a get at the very instant of expires_at has
\* returned the stored status Cancelled unchanged.
C2_ReachedAtExpiryInstant ==
  /\ last.op = "get" /\ last.code = "ok"
  /\ last.was[last.id] = "cancelled"
  /\ last.status = "cancelled"
  /\ now = store[last.id].expires_at

C4_TurnOnExpiredChangesNothing ==
  [][\A id \in Ids :
       (/\ last'.op \in TurnOps /\ last'.id = id
        /\ store[id] # NoSession
        /\ now > store[id].expires_at)
       => /\ last'.code = "not_active"
          /\ logs' = logs
          /\ store'[id] # NoSession
          /\ store'[id].current_step = store[id].current_step
          /\ store'[id].patient_info = store[id].patient_info]_vars

\* C5: when the generation call raises in a logged turn on a session that
\* exists (and, over HTTP, is Active), the reply in the log is the fixed
\* fallback text, the user message precedes it in the log, and the stored
\* current_step and patient_info are what they were before the turn.
C5_GenerationFailureKeepsState ==
  [][\A id \in Ids, text \in Texts :
       (/\ FailedLoggedTurn(id, text)
        /\ store[id] # NoSession
        /\ last'.code = "ok")
       => /\ logs'[id] = logs[id] \o
                          << [message_type |-> "user", content |-> text],
                             [message_type |-> "assistant", content |-> FallbackReply] >>
          /\ store'[id] # NoSession
          /\ store'[id].current_step = store[id].current_step
          /\ store'[id].patient_info = store[id].patient_info]_vars
\* C5 witness: a POST /chat turn with "Hi" at greeting whose generation
\* raised: the log holds the user text and the fallback, the step is greeting.
C5_Witness ==
  /\ last.op = "chat" /\ last.code = "ok" /\ last.id = 1
  /\ last.from = "greeting"
  /\ EndsWithTurn(logs[1], TextHi, FallbackReply)
  /\ store[1].current_step = "greeting"

\* C6 as stated: once name, phone, symptoms or preferred_doctor holds a
\* value, no turn changes that value.
C6_FieldsWriteOnce ==
  [][last'.op \in TurnOps =>
       \A id \in Ids, f \in InfoFields :
         (Kept(id) /\ store[id].patient_info[f] # None)
         => store'[id].patient_info[f] = store[id].patient_info[f]]_vars

\* C8 as stated: a turn over HTTP or WebSocket addressed to an id with no
\* stored session is answered "not found", creates no session record and
\* appends to no log.
C8_TurnOnMissingSessionWritesNothing ==
  [][\A id \in Ids :
       (/\ last'.op \in {"chat", "ws_turn"} /\ last'.id = id
        /\ store[id] = NoSession)
       => /\ last'.code = "not_found"
          /\ store'[id] = NoSession
          /\ logs' = logs]_vars

\* C9: a turn whose generation succeeds and whose text does not meet the
\* advance condition of the session's current step leaves current_step and
\* every patient_info field as they were.
C9_NoMatchIsNoOp ==
  [][\A id \in Ids, text \in Texts :
       (/\ SuccessfulTurn(id, text)
        /\ Kept(id)
        /\ ~AdvanceCondition(store[id], text))
       => /\ store'[id].current_step = store[id].current_step
          /\ store'[id].patient_info = store[id].patient_info]_vars
\* C9 witness: a POST /chat turn with the phone text at greeting was answered
\* by the generator and the session is still at greeting with nothing set.
C9_Witness ==
  /\ last.op = "chat" /\ last.code = "ok" /\ last.id = 1
  /\ last.from = "greeting"
  /\ EndsWithTurn(logs[1], TextPhone, GeneratedReply)
  /\ store[1].current_step = "greeting"
  /\ store[1].patient_info = EmptyPatientInfo

\* C10: a turn moves current_step zero or exactly one position forward.
C10_AtMostOneStepPerTurn ==
  [][last'.op \in TurnOps =>
       \A id \in Ids :
         Kept(id) => StepIndex(store'[id].current_step)
                       - StepIndex(store[id].current_step) \in {0, 1}]_vars
\* C10 witness: a process_message call with "Hi", a text that meets the
\* conditions of greeting and of name_collection, has moved a session from
\* greeting to name_collection and no further.
C10_Witness ==
  /\ last.op = "process" /\ last.code = "ok" /\ last.id = 1
  /\ last.from = "greeting"
  /\ store[1].current_step = "name_collection"
  /\ store[1].patient_info.name = None

(***************************************************************************)
(* Extraction rules (SpecScenario).                                        *)
(***************************************************************************)
\* the runs of phone characters of a text that hold at least ten digits,
\* wherever they sit in the text
PhoneRuns(text) ==
  {r \in {SubSeq(text, i, j) : i \in 1..Len(text), j \in 1..Len(text)} :
     /\ Len(r) > 0
     /\ \A k \in 1..Len(r) : r[k] \in PhoneClass
     /\ DigitCount(r) >= 10}
\* a name as the rule of name_collection words it: not empty once trimmed,
\* at most three tokens, nothing but letters and blanks
TokenStarts(text) ==
  {i \in 1..Len(text) : text[i] # " " /\ (i = 1 \/ text[i - 1] = " ")}
LooksLikeName(text) ==
  /\ \E i \in 1..Len(text) : text[i] # " "
  /\ Cardinality(TokenStarts(text)) <= 3
  /\ \A i \in 1..Len(text) : text[i] = " " \/ text[i] \in Alpha
\* the doctor a text names, in the order smith, johnson, brown
NamedDoctor(text) ==
  IF Contains(Lower(text), DoctorSmith) THEN <<"dr_smith">>
  ELSE IF Contains(Lower(text), DoctorJohnson) THEN <<"dr_johnson">>
  ELSE IF Contains(Lower(text), DoctorBrown) THEN <<"dr_brown">>
  ELSE None
\* a process_message call with this text, answered by the generator, on a
\* stored session that is at the given step
TurnAt(id, text, step) ==
  /\ ProcessMessageCall(id, text, TRUE)
  /\ Kept(id)
  /\ store[id].current_step = step

\* C11 as stated: at phone_collection a turn sets phone (to a trimmed run)
\* and advances to symptoms_collection if and only if the text contains,
\* anywhere, a run of phone characters with at least ten digits; otherwise
\* the step and the phone are unchanged.
C11_PhoneRunAnywhere ==
  [][\A id \in Creatable, text \in ScenarioTexts :
       TurnAt(id, text, "phone_collection")
       => IF PhoneRuns(text) # {}
          THEN /\ store'[id].current_step = "symptoms_collection"
               /\ store'[id].patient_info.phone \in {Strip(r) : r \in PhoneRuns(text)}
          ELSE /\ store'[id].current_step = "phone_collection"
               /\ store'[id].patient_info.phone = store[id].patient_info.phone]_vars

\* C12: at name_collection a turn sets name to the trimmed text and advances
\* to phone_collection if and only if name is unset and the text looks like
\* a name; otherwise the step and the name are unchanged.
C12_NameAcceptedIffLooksLikeName ==
  [][\A id \in Creatable, text \in ScenarioTexts :
       TurnAt(id, text, "name_collection")
       => IF store[id].patient_info.name = None /\ LooksLikeName(text)
          THEN /\ store'[id].current_step = "phone_collection"
               /\ store'[id].patient_info.name = Strip(text)
          ELSE /\ store'[id].current_step = "name_collection"
               /\ store'[id].patient_info.name = store[id].patient_info.name]_vars
\* C12 witness: a turn at name_collection has stored the name "John Doe" and
\* moved the session to phone_collection.
C12_Witness ==
  /\ last.op = "process" /\ last.code = "ok" /\ last.id = 1
  /\ last.from = "name_collection"
  /\ store[1].current_step = "phone_collection"
  /\ store[1].patient_info.name = TextJohnDoe
\* the other cases of C12: a padded name is stored trimmed; a turn at
\* name_collection with the name already set leaves the step and the name.
C12_ReachedTrimmed ==
  /\ last.op = "process" /\ last.from = "name_collection"
  /\ store[1].patient_info.name = <<"A","n","n">>
C12_ReachedHeld ==
  /\ last.op = "process" /\ last.code = "ok" /\ last.from = "name_collection"
  /\ store[1].current_step = "name_collection"
  /\ store[1].patient_info.name = PresetValue

\* C13: at doctor_preference a turn whose text names smith, johnson or brown
\* (the first of them in that order when several occur) sets preferred_doctor
\* to that doctor and advances to slot_selection; a text naming none leaves
\* the step and preferred_doctor unchanged.
C13_DoctorFirstInOrderWins ==
  [][\A id \in Creatable, text \in ScenarioTexts :
       TurnAt(id, text, "doctor_preference")
       => IF NamedDoctor(text) # None
          THEN /\ store'[id].current_step = "slot_selection"
               /\ store'[id].patient_info.preferred_doctor = NamedDoctor(text)
          ELSE /\ store'[id].current_step = "doctor_preference"
               /\ store'[id].patient_info.preferred_doctor
                    = store[id].patient_info.preferred_doctor]_vars
\* C13 witness: a turn at doctor_preference has set dr_smith, which only the
\* text naming both Brown and Smith can do, and moved to slot_selection.
C13_Witness ==
  /\ last.op = "process" /\ last.code = "ok" /\ last.id = 1
  /\ last.from = "doctor_preference"
  /\ store[1].current_step = "slot_selection"
  /\ store[1].patient_info.preferred_doctor = <<"dr_smith">>
\* the Scenario D case of C13: dr_johnson has been set.
C13_ReachedJohnson ==
  /\ last.op = "process" /\ last.from = "doctor_preference"
  /\ store[1].current_step = "slot_selection"
  /\ store[1].patient_info.preferred_doctor = <<"dr_johnson">>

(***************************************************************************)
(* The booking flow (SpecFlow).                                            *)
(***************************************************************************)
\* C14: on a session created fresh and driven by process_message calls only,
\* the k-th input of the booking-flow test, answered by the generator while
\* the session is at the k-th step, moves it to step k+1 (so the seven inputs
\* in order lead from greeting through every step to completed), and the
\* session is never at completed before seven calls have been made.
C14_FlowCompletesInSevenTurns ==
  /\ [][\A k \in 1..Len(FlowInputs) :
          (/\ FinishProcessMessage(1, TRUE)
           /\ calls[1].text = FlowInputs[k]
           /\ calls[1].id \in Creatable
           /\ Kept(calls[1].id)
           /\ store[calls[1].id].current_step = BookingStep[k])
          => store'[calls[1].id].current_step = BookingStep[k + 1]]_vars
  /\ [](\A id \in Creatable :
          (store[id] # NoSession /\ store[id].current_step = "completed")
          => calls[1].made >= 7)
\* C14 witness: the session is at completed after exactly seven calls, holding
\* the name, phone, symptoms and doctor of the test's inputs.
C14_Witness ==
  /\ store[1] # NoSession
  /\ store[1].current_step = "completed"
  /\ calls[1].made = 7
  /\ store[1].patient_info.name = TextJohnDoe
  /\ store[1].patient_info.phone = TextFlowPhone
  /\ store[1].patient_info.symptoms = TextFlowSymptoms
  /\ store[1].patient_info.preferred_doctor = <<"dr_smith">>

(***************************************************************************)
(* The session store (SpecStore).                                          *)
(***************************************************************************)
\* C15: when create_session returns, a get_session of the returned id finds
\* a stored record at greeting, Active, with expires_at = creation time + TTL
\* and every patient_info field unset except the e-mail address when one was
\* supplied; the id is not the id of any session created before.
C15_CreatePostcondition ==
  [][\A c \in CreateInputs :
       CreateSession(c[1], c[2])
       => LET S == GetSession(store', last'.id, now').ret
          IN  /\ S # NoSession
              /\ S.session_id = last'.id
              /\ S.current_step = "greeting"
              /\ S.status = "active"
              /\ S.expires_at = now + 24
              /\ S.patient_info = [EmptyPatientInfo EXCEPT !.email = c[1]]
              /\ \A i \in Ids : i < nextId => i # last'.id
              /\ \A i \in Ids : store[i] # NoSession => store[i].session_id # last'.id]_vars
\* C15 witness: a second session has been created, one timeout period after
\* the first, with an e-mail address; it is stored with expires_at 48 h.
C15_Witness ==
  /\ last.op = "create" /\ last.id = 2
  /\ now = 24
  /\ store[2] # NoSession
  /\ store[2].expires_at = 48
  /\ store[2].patient_info.email = SomeEmail
  /\ store[2].current_step = "greeting"

(***************************************************************************)
(* Deletion (SpecLifecycle).                                               *)
(***************************************************************************)
\* a session id that was handed out and has neither a record nor a log left
Purged(id) == id < nextId /\ store[id] = NoSession /\ logs[id] = <<>>
\* C16 as stated: a DELETE /sessions/{id} that succeeds leaves the session
\* not found and its message log empty, and a purged id stays purged whatever
\* is done with it afterwards (session ids are never handed out twice).
C16_DeletedStaysPurged ==
  [][\A id \in Ids :
       /\ (last'.op = "delete" /\ last'.code = "ok" /\ last'.id = id)
            => (store'[id] = NoSession /\ logs'[id] = <<>>)
       /\ Purged(id) => (store'[id] = NoSession /\ logs'[id] = <<>>)]_vars

(***************************************************************************)
(* Write failures (SpecStorageFault).                                      *)
(***************************************************************************)
\* C17 as stated: while the write of a session record fails, create_session
\* does not return a session as if it were persisted, update_session returns
\* failure, and a turn reports as current_step what is stored, not the step
\* its update could not persist.
C17_WriteFailureNotReportedAsSuccess ==
  [][~writable =>
       /\ last'.op = "create" => last'.code # "ok"
       /\ last'.op = "update_session" => last'.code = "failed"
       /\ (last'.op = "chat" /\ last'.code = "ok")
            => last'.step = StepOf(store'[last'.id])]_vars

(***************************************************************************)
(* The message log (SpecLog).                                              *)
(***************************************************************************)
\* C18: a save_message leaves the log of its session equal to the log before
\* it followed by the new message (so every earlier message keeps its content
\* and position) and leaves every other log alone; a read changes no log and
\* get_session_messages returns the log in insertion order.
C18_LogAppendOnly ==
  [][/\ \A id \in Ids, type \in MessageType, content \in LogContents :
          SaveChatMessage(id, type, content)
          => /\ logs'[id] = logs[id] \o <<[message_type |-> type, content |-> content]>>
             /\ \A k \in 1..Len(logs[id]) : logs'[id][k] = logs[id][k]
             /\ \A other \in Ids \ {id} : logs'[other] = logs[other]
     /\ \A id \in Ids :
          ReadSessionMessages(id) => logs' = logs /\ last'.out = logs[id]
     /\ last'.op = "get_recent" => logs' = logs]_vars
\* C18 witness: a log holding an assistant message after a user message has
\* been read back whole, in that order.
C18_Witness ==
  /\ last.op = "get_messages" /\ last.id = 1
  /\ last.out = <<[message_type |-> "user", content |-> TextHi],
                  [message_type |-> "assistant", content |-> GeneratedReply]>>
  /\ logs[1] = last.out

\* C19 as stated: get_recent_messages(id, limit) returns the last
\* min(limit, length) messages of the log, in log order, for every
\* limit >= 0: at most `limit` messages, and none when limit is 0.
C19_RecentReturnsLastLimit ==
  last.op = "get_recent" =>
    LET log == logs[last.id]
        n == IF last.count < Len(log) THEN last.count ELSE Len(log)
    IN  /\ last.out = SubSeq(log, Len(log) - n + 1, Len(log))
        /\ Len(last.out) <= last.count

(***************************************************************************)
(* Overlapping turns (SpecConcurrent).                                     *)
(***************************************************************************)
\* C20 as stated: when process_message calls on one session overlap, the
\* write that ends a call still never moves the stored current_step backward
\* and never leaves unset a patient_info field that was stored as set.
C20_OverlappingTurnsKeepProgress ==
  [][\A id \in Creatable :
       (last'.op = "process" /\ last'.id = id /\ Kept(id))
       => /\ StepIndex(store'[id].current_step) >= StepIndex(store[id].current_step)
          /\ \A f \in InfoFields :
               store[id].patient_info[f] # None => store'[id].patient_info[f] # None]_vars

(***************************************************************************)
(* Terminal step, lazy expiry and the symptoms step.                       *)
(***************************************************************************)
\* C21: a turn (POST /chat, WebSocket message or process_message call, with
\* any text, generation succeeding or failing) on a session whose
\* current_step is completed changes neither current_step nor any
\* patient_info field.
C21_CompletedIsTerminal ==
  [][\A id \in Ids :
       (/\ last'.op \in TurnOps /\ last'.id = id
        /\ Kept(id)
        /\ store[id].current_step = "completed")
       => /\ store'[id].current_step = "completed"
          /\ store'[id].patient_info = store[id].patient_info]_vars
\* C21 witness: a process_message call answered by the generator has run on
\* a session at completed, which is still at completed.
C21_Witness ==
  /\ last.op = "process" /\ last.code = "ok" /\ last.id = 1
  /\ last.from = "completed"
  /\ store[1] # NoSession
  /\ store[1].current_step = "completed"
  /\ store[1].patient_info = EmptyPatientInfo

\* C22 as stated: get_session changes the status to Expired only when the
\* stored status is Active; a session stored as Completed or Cancelled is
\* returned with that status, also after its expires_at has passed.
C22_GetFlipsOnlyActive ==
  (last.op = "get" /\ last.code = "ok" /\ last.was[last.id] \in {"completed", "cancelled"})
    => /\ last.status = last.was[last.id]
       /\ store[last.id].status = last.was[last.id]

\* C24 as stated: every turn answered by the generator while current_step is
\* symptoms_collection leaves the session at doctor_preference with symptoms
\* set: to the raw text when it was unset, to what it held otherwise.
C24_SymptomsAlwaysAdvances ==
  [][\A id \in Creatable, text \in Texts :
       (/\ SuccessfulTurn(id, text)
        /\ Kept(id)
        /\ store[id].current_step = "symptoms_collection")
       => /\ store'[id].current_step = "doctor_preference"
          /\ store'[id].patient_info.symptoms
               = IF store[id].patient_info.symptoms = None
                 THEN text
                 ELSE store[id].patient_info.symptoms]_vars

(***************************************************************************)
(* Sweeping and listing (SpecSweep, SpecSweepFault).                       *)
(***************************************************************************)
\* the records cleanup_expired_sessions removed in this step
RemovedRecords == {id \in Ids : store[id] # NoSession /\ store'[id] = NoSession}
\* C23: cleanup_expired_sessions deletes, for every session it collects (every
\* readable session that get_session reports as Expired), the session record
\* and the message log, and returns the number of records it removed.
C23_SweepDeletesRecordAndLog ==
  [][last'.op = "cleanup" =>
       /\ \A id \in SweptIds(store, now) :
            store'[id] = NoSession /\ logs'[id] = <<>>
       /\ last'.count = Cardinality(RemovedRecords)]_vars
\* C23 witness: a sweep has removed both sessions and returned 2.
C23_Witness ==
  /\ last.op = "cleanup"
  /\ last.count = 2
  /\ \A id \in Ids : last.was[id] # "none" /\ store[id] = NoSession /\ logs[id] = <<>>

\* the status get_session reports for a stored session at the current time
StatusAfterLazyExpiry(id) ==
  IF now > store[id].expires_at THEN "expired" ELSE store[id].status
\* the stored readable sessions passing a status filter
Listed(filter) ==
  {id \in Ids : /\ store[id] # NoSession
                /\ ~Unreadable(id)
                /\ (filter = NoFilter \/ StatusAfterLazyExpiry(id) = filter)}
\* C25: get_all_sessions(filter) returns exactly the stored readable sessions
\* whose status after lazy expiry equals the filter, each once and with that
\* status, and every stored readable session when no filter is given.
C25_ListReturnsFilteredSessions ==
  [][last'.op = "list" =>
       /\ {last'.out[k].session_id : k \in DOMAIN last'.out} = Listed(last'.status)
       /\ Len(last'.out) = Cardinality(Listed(last'.status))
       /\ \A k \in DOMAIN last'.out :
            last'.out[k].status = StatusAfterLazyExpiry(last'.out[k].session_id)]_vars
\* C25 witness: a listing filtered on Expired has returned a session that was
\* stored as Active and is past its expires_at, and has left out another
\* stored session.
C25_Witness ==
  /\ last.op = "list"
  /\ last.status = "expired"
  /\ Len(last.out) = 1
  /\ last.was[last.out[1].session_id] = "active"
  /\ \A id \in Ids : store[id] # NoSession

\* C26 as stated: when reading or removing one record fails during a sweep,
\* that record is skipped and every other session that get_session reports
\* as Expired is removed, with its log, by the same sweep.
C26_SweepSurvivesBadRecord ==
  [][last'.op = "cleanup" =>
       \A id \in SweptIds(store, now) :
         ~Undeletable(id) => (store'[id] = NoSession /\ logs'[id] = <<>>)]_vars

(***************************************************************************)
(* A turn step by step, crashes and overlapping appends (SpecTurn,         *)
(* SpecAppend, SpecLogFault).                                              *)
(***************************************************************************)
\* a complete, well-formed session record
ValidSession(session) ==
  /\ DOMAIN session = {"session_id", "created_at", "updated_at", "status",
                       "current_step", "patient_info", "metadata", "expires_at"}
  /\ session.status \in SessionStatus
  /\ session.current_step \in Steps
  /\ DOMAIN session.patient_info = DOMAIN EmptyPatientInfo
  /\ session.expires_at = session.created_at + SessionTimeoutHours
\* the record a turn with this text leaves for a stored session
PostTurn(session, text) ==
  [AdvanceState(session, text) EXCEPT !.updated_at = now]
\* the log is what it was, or what it was with one message more
AtMostOneAppended(id) ==
  \/ logs'[id] = logs[id]
  \/ /\ Len(logs'[id]) = Len(logs[id]) + 1
     /\ SubSeq(logs'[id], 1, Len(logs[id])) = logs[id]
\* C27: when the process stops between the steps of a POST /chat turn
\* (append user message, generate, persist session, append assistant
\* message), the stored session is a valid record equal to the pre-turn or
\* to the post-turn record: every step leaves the record as it was or writes
\* the whole post-turn record, a stop changes neither record nor log, and
\* a step adds at most one entry to the log.
C27_CrashLeavesPreOrPostTurn ==
  [][\A id \in Creatable :
       Kept(id) =>
         /\ ValidSession(store'[id])
         /\ \/ store'[id] = store[id]
            \/ \E p \in Callers :
                 /\ calls[p].pc = "persist" /\ calls[p].id = id
                 /\ store'[id] = PostTurn(store[id], calls[p].text)
         /\ AtMostOneAppended(id)
         /\ last'.op = "crash" => (store'[id] = store[id] /\ logs'[id] = logs[id])]_vars
\* C27 witness: the process has stopped after the session was persisted and
\* before the assistant message was appended: the record is the post-turn
\* one and the log holds the user message alone.
C27_Witness ==
  /\ last.op = "crash"
  /\ store[1] # NoSession
  /\ store[1].current_step = "name_collection"
  /\ logs[1] = <<[message_type |-> "user", content |-> TextHi]>>

\* C28 as stated: when save_message calls on one session overlap, the write
\* that ends a call leaves every message the log held in place and adds the
\* message of the call.
C28_OverlappingAppendsKeepMessages ==
  [][\A p \in Callers :
       FinishSaveMessage(p) =>
         LET id == calls[p].id
         IN  /\ Len(logs'[id]) = Len(logs[id]) + 1
             /\ SubSeq(logs'[id], 1, Len(logs[id])) = logs[id]
             /\ logs'[id][Len(logs'[id])].content = calls[p].text]_vars

\* C29 as stated: when the load of the existing log fails inside
\* save_message, the messages already stored for the session are still in
\* the log after the append.
C29_AppendKeepsHistoryOnReadError ==
  [][\A id \in Ids :
       (last'.op = "save_message" /\ last'.id = id /\ LogUnreadable(id))
       => /\ Len(logs'[id]) = Len(logs[id]) + 1
          /\ SubSeq(logs'[id], 1, Len(logs[id])) = logs[id]]_vars

\* the last message of the log of a request in flight is its user message
UserMessageIsLast(p) ==
  /\ Len(logs[calls[p].id]) > 0
  /\ logs[calls[p].id][Len(logs[calls[p].id])]
       = [message_type |-> "user", content |-> calls[p].text]
\* C30: in a POST /chat turn the user message is in the log when the
\* generator is invoked; when the generator has answered, the updated session
\* is stored before the assistant message is appended; and the turn adds
\* exactly two messages to the log, the assistant message right after the
\* user message, the steps in between adding none.
C30_OrderOfEffects ==
  [][\A p \in Callers :
       /\ calls'[p].pc \in {"generate", "persist", "append_assistant"}
            => UserMessageIsLast(p)'
       /\ (calls[p].pc = "idle" /\ calls'[p].pc = "generate")
            => logs'[calls'[p].id] = Append(logs[calls'[p].id],
                                            [message_type |-> "user", content |-> calls'[p].text])
       /\ (calls[p].pc \in {"generate", "persist"} /\ calls'[p].pc # "idle")
            => logs' = logs
       /\ (calls'[p].pc = "append_assistant" /\ calls'[p].reply = GeneratedReply)
            => store'[calls'[p].id] = PostTurn(calls'[p].session, calls'[p].text)
       /\ (calls[p].pc = "append_assistant" /\ last'.op = "chat")
            => logs'[calls[p].id] = Append(logs[calls[p].id],
                                           [message_type |-> "assistant", content |-> calls[p].reply])]_vars
\* C30 witness: a turn answered by the generator has ended: the session has
\* advanced and the log holds the user message followed by the reply.
C30_Witness ==
  /\ last.op = "chat" /\ last.code = "ok" /\ last.id = 1
  /\ last.step = "name_collection"
  /\ logs[1] = <<[message_type |-> "user", content |-> TextHi],
                 [message_type |-> "assistant", content |-> GeneratedReply]>>

(***************************************************************************)
(* Attributes fixed at creation (SpecAttributes).                          *)
(***************************************************************************)
\* the operations that end in update_session
UpdateOps == {"update_session", "update_info", "update_step", "process"}
\* C31: no operation changes a stored session's session_id, created_at,
\* expires_at or metadata; updated_at changes only in an operation that calls
\* update_session, which stamps the current time; and a get_session leaves
\* the record as it was or changes its status, alone, to Expired.
C31_CreationAttributesImmutable ==
  [][\A id \in Creatable :
       Kept(id) =>
         /\ store'[id].session_id = store[id].session_id
         /\ store'[id].created_at = store[id].created_at
         /\ store'[id].expires_at = store[id].expires_at
         /\ store'[id].metadata = store[id].metadata
         /\ store'[id].updated_at # store[id].updated_at
              => (last'.op \in UpdateOps /\ store'[id].updated_at = now)
         /\ last'.op = "get"
              => \/ store'[id] = store[id]
                 \/ store'[id] = [store[id] EXCEPT !.status = "expired"]]_vars
\* C31 witness: a session created with metadata at time 0 has been updated a
\* timeout period later: updated_at is stamped, the rest is as created.
C31_Witness ==
  /\ last.op = "update_info" /\ last.code = "ok"
  /\ store[1] # NoSession
  /\ store[1].updated_at = SessionTimeoutHours
  /\ store[1].created_at = 0
  /\ store[1].expires_at = SessionTimeoutHours
  /\ store[1].metadata = SomeMetadata

(***************************************************************************)
(* The name step with a name already stored (SpecBooking).                 *)
(***************************************************************************)
\* C32: a turn (POST /chat, WebSocket message or process_message call, with
\* any text, generation succeeding or failing) on a session at
\* name_collection whose name is already set leaves current_step at
\* name_collection and the name as it was, so that no sequence of turns
\* takes the session to a later step.
C32_NameSetNeverLeavesNameCollection ==
  [][\A id \in Creatable :
       (/\ last'.op \in TurnOps /\ last'.id = id
        /\ Kept(id)
        /\ store[id].current_step = "name_collection"
        /\ ~Falsy(store[id].patient_info.name))
       => /\ store'[id].current_step = "name_collection"
          /\ store'[id].patient_info.name = store[id].patient_info.name]_vars
\* C32 witness: a POST /chat turn with a text that passes the name test,
\* answered by the generator, has run on a session at name_collection whose
\* name was set through update_patient_info; the session is still there.
C32_Witness ==
  /\ last.op = "chat" /\ last.code = "ok" /\ last.id = 1
  /\ last.from = "name_collection"
  /\ logs[1] = <<[message_type |-> "user", content |-> TextHi],
                 [message_type |-> "assistant", content |-> GeneratedReply]>>
  /\ store[1] # NoSession
  /\ store[1].current_step = "name_collection"
  /\ store[1].patient_info.name = PresetValue

(***************************************************************************)
(* Status of a finished booking (SpecStatus).                              *)
(***************************************************************************)
\* C33: no operation sets status to Completed or Cancelled, so every stored
\* session has status Active or Expired, Expired only past its expires_at; a
\* session at current_step completed is no exception, and POST /chat still
\* accepts a turn on it while it has not expired.
C33_FinalStepDoesNotCloseSession ==
  [][\A id \in Creatable :
       /\ store'[id] # NoSession
            => /\ store'[id].status \in {"active", "expired"}
               /\ store'[id].status = "expired" => now' > store'[id].expires_at
       /\ (/\ last'.op = "chat" /\ last'.id = id
           /\ store[id] # NoSession
           /\ store[id].current_step = "completed"
           /\ now <= store[id].expires_at)
          => /\ last'.code = "ok"
             /\ store'[id].status = "active"
             /\ Len(logs'[id]) = Len(logs[id]) + 2]_vars
\* C33 witness: a POST /chat turn has been accepted on a session whose
\* current_step is completed; its status is Active.
C33_Witness ==
  /\ last.op = "chat" /\ last.code = "ok" /\ last.id = 1
  /\ last.from = "completed"
  /\ store[1] # NoSession
  /\ store[1].current_step = "completed"
  /\ store[1].status = "active"

(***************************************************************************)
(* Logs without a session (SpecLifecycle).                                 *)
(***************************************************************************)
\* C34 as stated: in every state reached by create, turns (POST /chat or
\* WebSocket), delete and the sweep, a session id that has messages in its
\* log also has a stored session record.
C34_NoOrphanLogs ==
  \A id \in Ids : logs[id] # <<>> => store[id] # NoSession

(***************************************************************************)
(* Expiry that stays (SpecExpiry).                                         *)
(***************************************************************************)
\* a get_session of the id has just returned the session as Expired
ReturnedExpired(id) ==
  last.op = "get" /\ last.id = id /\ last.code = "ok" /\ last.status = "expired"
\* a get_session of the id has just returned a session
ReturnedSession(id) ==
  last.op = "get" /\ last.id = id /\ last.code = "ok"
\* C35: once a get_session has returned a session as Expired, every later
\* get_session that returns that session returns it as Expired, whatever
\* process_message calls write back copies loaded earlier in between.
C35_ExpiredIsAbsorbing ==
  \A id \in Creatable :
    [](ReturnedExpired(id) => [](ReturnedSession(id) => ReturnedExpired(id)))
\* C35 witness: a get_session has returned as Expired a session that was
\* stored as Active by a write made after its expires_at, that is by a call
\* writing back the copy it had loaded before the expiry.
C35_Witness ==
  /\ ReturnedExpired(1)
  /\ last.was[1] = "active"
  /\ store[1] # NoSession
  /\ store[1].updated_at > store[1].expires_at

(***************************************************************************)
(* The input of the generator (SpecTurn).                                  *)
(***************************************************************************)
\* C36 as stated: the input handed to the generator in a POST /chat turn is
\* the system prompt, at most 5 entries, and the new user text as its last
\* element, which occurs in the input exactly once.
C36_BoundedPromptContext ==
  \A p \in Callers :
    (/\ last.op = "chat_generate" /\ last.out # <<>>
     /\ calls[p].pc \in {"persist", "append_assistant"})
    => /\ last.out[1].role = "system"
       /\ Len(last.out) <= RecentLimit + 2
       /\ last.out[Len(last.out)] = [role |-> "human", content |-> calls[p].text]
       /\ Cardinality({k \in DOMAIN last.out :
                         last.out[k] = [role |-> "human", content |-> calls[p].text]}) = 1

(***************************************************************************)
(* Slot reservation (SpecSlots).                                           *)
(***************************************************************************)
\* reserve_slot has just been called for the slot, with this result
Reserved(key, code) ==
  last'.op = "reserve" /\ last'.out = <<key>> /\ last'.code = code
\* C37: reserve_slot(doctor, date, time) returns True only for a slot of the
\* table that is available, and leaves it unavailable, in the table of the
\* service and in the file, touching no other slot; a call that returns False
\* changes nothing; and a slot that is unavailable in the file never becomes
\* available again, in the file or in the service, so that every later call
\* for it returns False: True is returned at most once for a slot.
C37_NoDoubleBooking ==
  [][\A key \in SlotRequests :
       /\ Reserved(key, "true")
            => /\ key \in SlotKeys
               /\ slots.memory[key] /\ slots.file[key]
               /\ ~slots'.memory[key] /\ ~slots'.file[key]
               /\ \A other \in SlotKeys \ {key} :
                    slots'.memory[other] = slots.memory[other]
       /\ Reserved(key, "false") => slots' = slots
       /\ (key \in SlotKeys /\ ~slots.file[key])
            => /\ ~slots'.file[key] /\ ~slots'.memory[key]
               /\ ~Reserved(key, "true")]_vars
\* C37 witness: a call for a slot that was reserved before (it is
\* unavailable in the file) has returned False.
C37_Witness ==
  LET key == <<"dr_smith", "2024-01-15", "09:00">>
  IN  /\ last.op = "reserve" /\ last.out = <<key>> /\ last.code = "false"
      /\ ~slots.file[key]
      /\ ~slots.memory[key]

=============================================================================
